---------------------------- MODULE Spec2Model ----------------------------
(***************************************************************************)
(* Transactional write engine of the store crate: FdbStore::write          *)
(* (crates/store/src/backend/foundationdb/write.rs) and                    *)
(* PostgresStore::write / write_trx (crates/store/src/backend/postgres/    *)
(* write.rs), run by several concurrent callers against one database.      *)
(*                                                                         *)
(* Keys and values are byte strings, modelled as sequences of naturals.    *)
(* The FoundationDB transaction is a read version, a buffer of mutations   *)
(* and a set of read-conflict ranges; the PostgreSQL transaction (READ     *)
(* COMMITTED) is an overlay of uncommitted rows plus the row locks held.   *)
(***************************************************************************)
EXTENDS Integers, Sequences, FiniteSets, TLC

(***************************************************************************)
(* Bounds of the model.                                                    *)
(***************************************************************************)
\* Callers of write that may run concurrently.
MaxProcs == 2
\* Document ids are 0 .. MaxDocId; the sentinel u32::MAX is MaxDocId + 1.
MaxDocId == 2
\* Retry cap (crate::write::MAX_COMMIT_ATTEMPTS), scaled down.
MAX_COMMIT_ATTEMPTS == 2
\* Width in bytes of a serialized counter (i64::to_le_bytes), scaled down.
IntLen == 2
\* Chunk ceiling of the distributed-KV backend (super::MAX_VALUE_SIZE), scaled down.
MAX_VALUE_SIZE == 2

Procs == 1 .. MaxProcs
U32_MAX == MaxDocId + 1
U8_MAX == 255
U32_LEN == 1
IntMod == 256 * (IF IntLen = 1 THEN 1 ELSE IF IntLen = 2 THEN 256 ELSE 65536)

(***************************************************************************)
(* Byte strings: order, ranges, stores.                                    *)
(***************************************************************************)
MinOf(a, b) == IF a < b THEN a ELSE b

\* Lexicographic order of byte strings (the order of both backends' keys).
KeyLess(a, b) ==
    \E i \in 1 .. (MinOf(Len(a), Len(b)) + 1) :
        /\ \A j \in 1 .. (i - 1) : a[j] = b[j]
        /\ \/ (i > Len(a) /\ i <= Len(b))
           \/ (i <= Len(a) /\ i <= Len(b) /\ a[i] < b[i])

KeyLeq(a, b) == a = b \/ KeyLess(a, b)

\* k lies in the half-open range [from, to).
InRange(k, from, to) == KeyLeq(from, k) /\ KeyLess(k, to)

\* Two half-open ranges <<from, to>> intersect.
Overlap(r1, r2) == KeyLess(r1[1], r2[2]) /\ KeyLess(r2[1], r1[2])

\* The range holding exactly the key k (FoundationDB: [k, k ++ 0x00)).
KeyRange(k) == <<k, Append(k, 0)>>

\* The keys of S in ascending order: the i-th has i - 1 keys below it.
SortKeys(S) ==
    LET ranked == {<<Cardinality({x \in S : KeyLess(x, k)}), k>> : k \in S}
    IN  [i \in 1 .. Cardinality(S) |-> (CHOOSE r \in ranked : r[1] = i - 1)[2]]

EmptyStore == [k \in {} |-> <<>>]
Put(s, k, v) == (k :> v) @@ s
Del(s, k) == [x \in (DOMAIN s) \ {k} |-> s[x]]
DelRange(s, from, to) ==
    [x \in {y \in DOMAIN s : ~InRange(y, from, to)} |-> s[x]]

(***************************************************************************)
(* Little-endian integers.                                                 *)
(***************************************************************************)
RECURSIVE LeBytes(_, _)
LeBytes(u, n) == IF n = 0 THEN <<>> ELSE <<u % 256>> \o LeBytes(u \div 256, n - 1)

\* i64::to_le_bytes: two's complement, least significant byte first.
to_le_bytes(n) == LeBytes(n % IntMod, IntLen)

RECURSIVE LeValue(_)
LeValue(b) == IF b = <<>> THEN 0 ELSE b[1] + 256 * LeValue(Tail(b))

\* deserialize_i64_le: defined on exactly IntLen bytes.
deserialize_ok(b) == Len(b) = IntLen
deserialize_i64_le(b) ==
    LET u == LeValue(b) IN IF 2 * u >= IntMod THEN u - IntMod ELSE u

\* MutationType::Add: little-endian addition on the operand's length, an
\* absent value counting as zero, a longer one truncated, overflow dropped.
LeFit(b, n) == [i \in 1 .. n |-> IF i <= Len(b) THEN b[i] ELSE 0]
AtomicAddBytes(existing, param) ==
    LET n == Len(param)
        m == IF n = 0 THEN 1 ELSE IF n = 1 THEN 256 ELSE IF n = 2 THEN 65536 ELSE 16777216
    IN  LeBytes((LeValue(LeFit(existing, n)) + LeValue(param)) % m, n)


(***************************************************************************)
(* Key codec, value resolver and assertion predicate: capabilities the     *)
(* engine consumes (crate::write, crate::{BitmapKey, IndexKey, LogKey}).   *)
(***************************************************************************)
SUBSPACE_BITMAPS == 98
SUBSPACE_COUNTER == 99
SUBSPACE_INDEXES == 105
SUBSPACE_LOGS == 108
SUBSPACE_QUOTA == 113
SUBSPACE_VALUES == 118
BM_DOCUMENT_IDS == 0
BM_TAG == 64

\* class.is_counter(collection)
is_counter(class) == class \in {"Counter", "Quota"}

\* class.subspace(collection)
ValueSubspace(class) ==
    CASE class = "Counter" -> SUBSPACE_COUNTER
      [] class = "Quota" -> SUBSPACE_QUOTA
      [] OTHER -> SUBSPACE_VALUES

\* ValueClass::serialize(account_id, collection, document_id, ..)
ValueKey(class, account_id, collection, document_id) ==
    <<ValueSubspace(class), account_id, collection, document_id>>

\* BitmapKey { account_id, collection, class, document_id }.serialize(..):
\* the document id is the trailing U32_LEN bytes (one symbol here).
BitmapKey(account_id, collection, class, document_id) ==
    <<SUBSPACE_BITMAPS, account_id, collection,
      IF class = "DocumentIds" THEN BM_DOCUMENT_IDS ELSE BM_TAG, document_id>>

\* key.deserialize_be_u32(key_len - U32_LEN)
deserialize_be_u32(key, at) == key[at + 1]

\* IndexKey { account_id, collection, document_id, field, key }.serialize(..)
IndexKey(account_id, collection, document_id, field, key) ==
    <<SUBSPACE_INDEXES, account_id, collection, field>> \o key \o <<document_id>>

\* LogKey { account_id, collection, change_id }.serialize(..)
LogKey(account_id, collection, change_id) ==
    <<SUBSPACE_LOGS, account_id, collection, change_id>>

\* A Set or Log payload: literal bytes, or a reference to the idx-th
\* document id assigned earlier in the same batch.
Lit(bytes) == [kind |-> "lit", bytes |-> bytes, idx |-> 0]
DocRef(idx) == [kind |-> "doc_ref", bytes |-> <<>>, idx |-> idx]

\* value.resolve(&result): fails on a reference to an id not assigned yet.
ResolveOk(value, t) == value.kind = "lit" \/ value.idx <= Len(t.document_ids)
Resolve(value, t) ==
    IF value.kind = "lit" THEN value.bytes ELSE <<t.document_ids[value.idx]>>

\* The assertion predicate: assert_value.matches(bytes), assert_value.is_none().
AssertNone == [kind |-> "none", bytes |-> <<>>]
AssertIs(bytes) == [kind |-> "is", bytes |-> bytes]
matches(assert_value, bytes) ==
    assert_value.kind = "is" /\ assert_value.bytes = bytes
is_none(assert_value) == assert_value.kind = "none"

(***************************************************************************)
(* Operations of a batch (crate::write::Operation).                        *)
(***************************************************************************)
OpAccountId(a) == [op |-> "AccountId", account_id |-> a]
OpCollection(c) == [op |-> "Collection", collection |-> c]
OpDocumentId(d) == [op |-> "DocumentId", document_id |-> d]
OpSet(class, value) == [op |-> "Value", vop |-> "Set", class |-> class, value |-> value]
OpAtomicAdd(class, by) == [op |-> "Value", vop |-> "AtomicAdd", class |-> class, by |-> by]
OpAddAndGet(class, by) == [op |-> "Value", vop |-> "AddAndGet", class |-> class, by |-> by]
OpClear(class) == [op |-> "Value", vop |-> "Clear", class |-> class]
OpIndex(field, key, set) == [op |-> "Index", field |-> field, key |-> key, set |-> set]
OpBitmap(class, set) == [op |-> "Bitmap", class |-> class, set |-> set]
OpLog(set) == [op |-> "Log", set |-> set]
OpAssertValue(class, assert_value) ==
    [op |-> "AssertValue", class |-> class, assert_value |-> assert_value]

\* batch.change_id
change_id == 7

(***************************************************************************)
(* State of one attempt: the implicit context, the AssignedIds under       *)
(* construction and the open transaction.                                  *)
(*   FoundationDB: rv (read version, 0 = none taken yet), muts (buffered   *)
(*                 mutations), rcr (read-conflict ranges)                  *)
(*   PostgreSQL:   w (uncommitted rows; Deleted marks a deleted row),      *)
(*                 locks (rows locked), asserted_values                    *)
(*   base: the number of commits the database had seen when the attempt    *)
(*         started (for the statements about the attempt)                  *)
(*   delete_keys: the keys purge_store has collected                       *)
(***************************************************************************)
Deleted == << -1 >>

FreshAttempt ==
    [account_id |-> U32_MAX, collection |-> U8_MAX, document_id |-> U32_MAX,
     document_ids |-> <<>>, counter_ids |-> <<>>,
     rv |-> 0, muts |-> <<>>, rcr |-> {},
     w |-> EmptyStore, locks |-> {}, asserted_values |-> EmptyStore,
     base |-> 0, delete_keys |-> <<>>]

SetContext(t, op) ==
    CASE op.op = "AccountId" -> [t EXCEPT !.account_id = op.account_id]
      [] op.op = "Collection" -> [t EXCEPT !.collection = op.collection]
      [] op.op = "DocumentId" -> [t EXCEPT !.document_id = op.document_id]

(***************************************************************************)
(* FoundationDB transaction primitives.                                    *)
(***************************************************************************)
MutSet(k, v) == [m |-> "set", k |-> k, v |-> v, to |-> <<>>]
MutClear(k) == [m |-> "clear", k |-> k, v |-> <<>>, to |-> <<>>]
MutClearRange(from, to) == [m |-> "clear_range", k |-> from, v |-> <<>>, to |-> to]
MutAdd(k, param) == [m |-> "add", k |-> k, v |-> param, to |-> <<>>]
MutCompareAndClear(k, param) ==
    [m |-> "compare_and_clear", k |-> k, v |-> param, to |-> <<>>]

\* Mutation m writes key k.
Touches(m, k) == IF m.m = "clear_range" THEN InRange(k, m.k, m.to) ELSE m.k = k

\* One mutation applied to the record of a key (<<>>: no record, <<v>>: v).
ApplyMut(cell, m) ==
    CASE m.m = "set" -> <<m.v>>
      [] m.m = "clear" -> <<>>
      [] m.m = "clear_range" -> <<>>
      [] m.m = "add" ->
            <<AtomicAddBytes(IF cell = <<>> THEN <<>> ELSE cell[1], m.v)>>
      [] m.m = "compare_and_clear" -> IF cell = <<m.v>> THEN <<>> ELSE cell

\* The mutations of muts that write k, applied in order to its record.
RECURSIVE ApplyInOrder(_, _, _)
ApplyInOrder(cell, muts, at) ==
    IF at = {} THEN cell
    ELSE LET i == CHOOSE x \in at : \A y \in at : x <= y
         IN  ApplyInOrder(ApplyMut(cell, muts[i]), muts, at \ {i})

\* The database s after the mutations, key by key.
ApplyMuts(s, muts) ==
    LET written == {muts[i].k : i \in {j \in 1 .. Len(muts) :
                                          muts[j].m \in {"set", "add"}}}
        cell(k) == ApplyInOrder(IF k \in DOMAIN s THEN <<s[k]>> ELSE <<>>, muts,
                                {i \in 1 .. Len(muts) : Touches(muts[i], k)})
        cells == [k \in (DOMAIN s) \cup written |-> cell(k)]
    IN  [k \in {x \in DOMAIN cells : cells[x] # <<>>} |-> cells[k][1]]

\* The write-conflict range of a mutation.
WriteRange(m) == IF m.m = "clear_range" THEN <<m.k, m.to>> ELSE KeyRange(m.k)
WriteRanges(muts) == {WriteRange(muts[i]) : i \in 1 .. Len(muts)}

\* trx.set, trx.clear, trx.clear_range, trx.atomic_op: buffered, no I/O.
FdbMutate(t, m) == [t EXCEPT !.muts = Append(@, m)]

\* What a read of the transaction sees: its snapshot under its own writes.
FdbView(t, snap) == ApplyMuts(snap, t.muts)

\* A non-snapshot read (trx.get(key, false)) and add_conflict_range(.., Read)
\* add a read-conflict range; a snapshot read adds none.
FdbReadConflict(t, range) == [t EXCEPT !.rcr = @ \cup {range}]


(***************************************************************************)
(* FdbStore::write: the operations of the batch interpreter, each as the   *)
(* change it makes to the attempt's state.  snap is the database at the    *)
(* transaction's read version.                                             *)
(***************************************************************************)
CtxValueKey(t, class) == ValueKey(class, t.account_id, t.collection, t.document_id)

\* value.chunks(MAX_VALUE_SIZE).enumerate()
NChunks(value) == (Len(value) + MAX_VALUE_SIZE - 1) \div MAX_VALUE_SIZE
Chunk(value, pos) ==
    SubSeq(value, pos * MAX_VALUE_SIZE + 1,
           MinOf((pos + 1) * MAX_VALUE_SIZE, Len(value)))

ChunkKeyByPos(key, pos) == IF pos = 0 THEN key ELSE Append(key, pos)

\* The key of chunk pos: the bare key, then key ++ 0, key ++ 1, ..
ChunkKey(key, pos) == IF pos = 0 THEN key ELSE Append(key, pos - 1)

ValueTooLargeUnchecked(class, value) == FALSE

\* The chunk loop reaches a position that is not < u8::MAX.
ValueTooLarge(class, value) ==
    value # <<>> /\ ~is_counter(class) /\ NChunks(value) > U8_MAX

FdbValueSetOpAlwaysChunk(t, op) ==
    LET key == CtxValueKey(t, op.class)
        value == Resolve(op.value, t)
    IN  [t EXCEPT !.muts = @ \o
            [i \in 1 .. MinOf(NChunks(value), U8_MAX) |->
                MutSet(ChunkKey(key, i - 1), Chunk(value, i - 1))]]

FdbValueSetOp(t, op) ==
    LET key == CtxValueKey(t, op.class)
        value == Resolve(op.value, t)
        do_chunk == ~is_counter(op.class)
    IN  IF value # <<>> /\ do_chunk
        THEN [t EXCEPT !.muts = @ \o
                 [i \in 1 .. MinOf(NChunks(value), U8_MAX) |->
                     MutSet(ChunkKey(key, i - 1), Chunk(value, i - 1))]]
        ELSE FdbMutate(t, MutSet(key, value))

FdbValueAtomicAddOpBlindSet(t, op) ==
    FdbMutate(t, MutSet(CtxValueKey(t, op.class), to_le_bytes(op.by)))

FdbValueAtomicAddOp(t, op) ==
    FdbMutate(t, MutAdd(CtxValueKey(t, op.class), to_le_bytes(op.by)))

\* trx.get(&key, false) of AddAndGet: what is read, and whether it decodes.
FdbAddAndGetReadable(t, op, snap) ==
    LET key == CtxValueKey(t, op.class)
        view == FdbView(t, snap)
    IN  key \in DOMAIN view => deserialize_ok(view[key])

FdbValueAddAndGetOpSnapshotRead(t, op, snap) ==
    LET key == CtxValueKey(t, op.class)
        view == FdbView(t, snap)
        num == IF key \in DOMAIN view
               THEN deserialize_i64_le(view[key]) + op.by
               ELSE op.by
        t2 == FdbMutate(t, MutSet(key, to_le_bytes(num)))
    IN  [t2 EXCEPT !.counter_ids = Append(@, num)]

FdbValueAddAndGetOp(t, op, snap) ==
    LET key == CtxValueKey(t, op.class)
        view == FdbView(t, snap)
        num == IF key \in DOMAIN view
               THEN deserialize_i64_le(view[key]) + op.by
               ELSE op.by
        t1 == FdbReadConflict(t, KeyRange(key))
        t2 == FdbMutate(t1, MutSet(key, to_le_bytes(num)))
    IN  [t2 EXCEPT !.counter_ids = Append(@, num)]

FdbValueClearOp(t, op) ==
    LET key == CtxValueKey(t, op.class)
    IN  IF ~is_counter(op.class)
        THEN FdbMutate(t, MutClearRange(key, Append(key, U8_MAX)))
        ELSE FdbMutate(t, MutClear(key))

FdbIndexOp(t, op) ==
    LET key == IndexKey(t.account_id, t.collection, t.document_id, op.field, op.key)
    IN  FdbMutate(t, IF op.set THEN MutSet(key, <<>>) ELSE MutClear(key))

FdbLogOp(t, op) ==
    FdbMutate(t, MutSet(LogKey(t.account_id, t.collection, change_id),
                        Resolve(op.set, t)))

AssignIdAnyContext(t, op) == op.set /\ op.class = "DocumentIds"

\* assign_id of Operation::Bitmap
AssignId(t, op) == op.set /\ op.class = "DocumentIds" /\ t.document_id = U32_MAX

\* The keys the allocator's range read returns, in ascending order:
\* [begin, end) of the transaction's view.
FdbScanKeys(t, snap) ==
    LET begin == BitmapKey(t.account_id, t.collection, "DocumentIds", 0)
        end == BitmapKey(t.account_id, t.collection, "DocumentIds", U32_MAX)
    IN  SortKeys({k \in DOMAIN FdbView(t, snap) : InRange(k, begin, end)})

\* found_ids: the stream delivers the keys in batches (cuts: the positions
\* after which a new batch starts); within one batch the loop stops at the
\* first key whose length is not key_len.
FdbFoundIds(keys, key_len, cuts) ==
    {deserialize_be_u32(keys[i], key_len - U32_LEN) :
        i \in {x \in 1 .. Len(keys) :
                 /\ Len(keys[x]) = key_len
                 /\ \A j \in 1 .. (x - 1) :
                       Len(keys[j]) # key_len => \E c \in cuts : j <= c /\ c < x}}

\* found_ids.random_available_id(): some id that is not in the set.
AvailableIds(found_ids) == {i \in 0 .. MaxDocId : i \notin found_ids}

FdbBitmapOpNoConflictRange(t, op, id) ==
    LET assign_id == AssignId(t, op)
        t1 == IF assign_id
              THEN [t EXCEPT !.document_id = id, !.document_ids = Append(@, id)]
              ELSE t
        key == BitmapKey(t1.account_id, t1.collection, op.class, t1.document_id)
    IN  FdbMutate(t1, IF op.set THEN MutSet(key, <<>>) ELSE MutClear(key))

FdbBitmapOp(t, op, id) ==
    LET assign_id == AssignId(t, op)
        t1 == IF assign_id
              THEN [t EXCEPT !.document_id = id, !.document_ids = Append(@, id)]
              ELSE t
        key == BitmapKey(t1.account_id, t1.collection, op.class, t1.document_id)
        t2 == IF op.set /\ assign_id
              THEN FdbReadConflict(t1,
                       <<key, BitmapKey(t1.account_id, t1.collection, op.class,
                                        t1.document_id + 1)>>)
              ELSE t1
    IN  FdbMutate(t2, IF op.set THEN MutSet(key, <<>>) ELSE MutClear(key))

\* read_chunked_value(&key, &trx, false): the records of [key, key ++ 0xFF]
\* concatenated in key order; <<FALSE>> stands for ChunkedValue::None.
ChunkedNone == <<FALSE>>
RECURSIVE ConcatValues(_, _)
ConcatValues(view, keys) ==
    IF keys = <<>> THEN <<>>
    ELSE IF Len(keys) = 1 THEN view[keys[1]]
    ELSE LET half == Len(keys) \div 2
         IN  ConcatValues(view, SubSeq(keys, 1, half))
                 \o ConcatValues(view, SubSeq(keys, half + 1, Len(keys)))

read_chunked_value(view, key) ==
    IF key \notin DOMAIN view THEN ChunkedNone
    ELSE <<TRUE, ConcatValues(view,
              SortKeys({k \in DOMAIN view : InRange(k, key, Append(key, U8_MAX))}))>>

FdbAssertMatches(t, op, snap) ==
    LET r == read_chunked_value(FdbView(t, snap), CtxValueKey(t, op.class))
    IN  IF r[1] THEN matches(op.assert_value, r[2]) ELSE is_none(op.assert_value)

FdbAssertValueOpSnapshotRead(t, op) == t

FdbAssertValueOp(t, op) ==
    LET key == CtxValueKey(t, op.class)
    IN  FdbReadConflict(t, <<key, Append(key, U8_MAX)>>)


(***************************************************************************)
(* The system: one database, MaxProcs callers of write.                    *)
(***************************************************************************)
VARIABLES
    backend,       \* "fdb" or "pg": the store the callers write to
    scenario,      \* name of the workload chosen at start
    batch,         \* batch[p]: the Batch caller p submits (its ops)
    hist,          \* committed states of the database, oldest first
    wlog,          \* wlog[i]: write-conflict ranges of the commit that made hist[i+1]
    commitOrder,   \* callers in the order their commits succeeded
    pc,            \* "unused" | "begin" | "run" | "commit" | "done" | "cancelled";
                   \* in purge_store: "purge" | "purge_delete"; in
                   \* delete_range: "delete_range"
    pos,           \* index in batch.ops of the next operation; in purge_store:
                   \* index of the subspace to visit
    retry_count,   \* retry_count of write
    att,           \* state of the attempt in progress (see FreshAttempt)
    ret,           \* what write returned
    attempts,      \* times the batch has been executed by this call
    lastRetry      \* why the last re-execution was started, and the clock then

cfgVars == <<backend, scenario, batch>>
dbVars == <<hist, wlog, commitOrder>>
vars == <<backend, scenario, batch, hist, wlog, commitOrder,
          pc, pos, retry_count, att, ret, attempts, lastRetry>>

\* The committed database.
db == hist[Len(hist)]

\* start.elapsed() against MAX_COMMIT_TIME when it is read: less, equal, greater.
Elapsed == {"lt", "eq", "gt"}

NoRet == [kind |-> "none", code |-> "", at |-> "", elapsed |-> "",
          document_ids |-> <<>>, counter_ids |-> <<>>]
RetOk(t) == [kind |-> "Ok", code |-> "", at |-> "commit", elapsed |-> "",
             document_ids |-> t.document_ids, counter_ids |-> t.counter_ids]
\* Err(kind) raised at an operation ("op") or at commit, with the reading
\* of the clock at that instant.
RetErr(kind, code, at, el) ==
    [kind |-> kind, code |-> code, at |-> at, elapsed |-> el,
     document_ids |-> <<>>, counter_ids |-> <<>>]

NoRetry == [cause |-> "none", elapsed |-> ""]

CurOp(p) == batch[p][pos[p]]
Running(p) == pc[p] = "run" /\ pos[p] <= Len(batch[p])
IsOp(p, kind) == Running(p) /\ CurOp(p).op = kind
IsValueOp(p, vop) == IsOp(p, "Value") /\ CurOp(p).vop = vop

\* The context operations (AccountId, Collection, DocumentId) assign the
\* context and suspend nowhere: the interpreter runs through them, from
\* operation i on, up to the next operation that calls the backend.
IsContextOp(op) == op.op \in {"AccountId", "Collection", "DocumentId"}
RECURSIVE RunContext(_, _, _)
RunContext(t, ops, i) ==
    IF i <= Len(ops) /\ IsContextOp(ops[i])
    THEN RunContext(SetContext(t, ops[i]), ops, i + 1)
    ELSE [t |-> t, pos |-> i]

\* The interpreter goes on from operation i with the attempt state t: to
\* the next operation that calls the backend, or to commit.
Continue(p, t, i) ==
    LET r == RunContext(t, batch[p], i)
    IN  /\ att' = [att EXCEPT ![p] = r.t]
        /\ pos' = [pos EXCEPT ![p] = r.pos]
        /\ pc' = [pc EXCEPT ![p] = IF r.pos > Len(batch[p]) THEN "commit" ELSE "run"]

\* The operation is done: on to the next one, or to commit.
Advance(p, t) ==
    /\ Continue(p, t, pos[p] + 1)
    /\ UNCHANGED <<cfgVars, dbVars, retry_count, ret, attempts, lastRetry>>

\* write returns r; the transaction is dropped (rolled back unless committed).
Return(p, r) ==
    /\ pc' = [pc EXCEPT ![p] = "done"]
    /\ ret' = [ret EXCEPT ![p] = r]
    /\ att' = [att EXCEPT ![p] = FreshAttempt]
    /\ UNCHANGED <<cfgVars, pos, retry_count, attempts, lastRetry>>

\* The number of executions of the batch, counted up to one more than any
\* the retry controller allows.
Executed(n) == IF n < MAX_COMMIT_ATTEMPTS + 3 THEN n + 1 ELSE n

RetryKeepsCount(p, cause, el, at) ==
    /\ pc' = [pc EXCEPT ![p] = "begin"]
    /\ lastRetry' = [lastRetry EXCEPT ![p] = [cause |-> cause, elapsed |-> el]]
    /\ att' = [att EXCEPT ![p] = FreshAttempt]
    /\ UNCHANGED <<cfgVars, dbVars, pos, ret, attempts, retry_count>>

\* The batch is executed again: sleep, retry_count += 1, next loop iteration.
Retry(p, cause, el, at) ==
    /\ pc' = [pc EXCEPT ![p] = "begin"]
    /\ retry_count' = [retry_count EXCEPT ![p] = @ + 1]
    /\ lastRetry' = [lastRetry EXCEPT ![p] = [cause |-> cause, elapsed |-> el]]
    /\ att' = [att EXCEPT ![p] = FreshAttempt]
    /\ UNCHANGED <<cfgVars, dbVars, pos, ret, attempts>>

(***************************************************************************)
(* FdbStore::write                                                         *)
(***************************************************************************)
Fdb(p) == backend = "fdb"

\* The read version: taken at the transaction's first read.
FdbWithReadVersion(t) == IF t.rv = 0 THEN [t EXCEPT !.rv = Len(hist)] ELSE t
FdbSnap(t) == hist[FdbWithReadVersion(t).rv]

\* Outcomes of a call that reads the database: it succeeds, or fails with a
\* fatal or with a retriable FdbError (el: the clock when it fails).
ReadOutcomes ==
    {<<"ok", "">>, <<"fatal", "">>} \cup {<<"recoverable", el>> : el \in Elapsed}

FdbLoopHeadStaleContext ==
    [FreshAttempt EXCEPT !.base = Len(hist), !.document_id = 0]

\* Loop head: the context is reset, result is empty, db.create_trx()?.
FdbLoopHead == [FreshAttempt EXCEPT !.base = Len(hist)]
FdbBegin(p) ==
    /\ Fdb(p) /\ pc[p] = "begin"
    /\ \E outcome \in {"ok", "fatal"} :
         IF outcome = "ok"
         THEN /\ Continue(p, FdbLoopHead, 1)
              /\ attempts' = [attempts EXCEPT ![p] = Executed(@)]
              /\ UNCHANGED <<cfgVars, dbVars, retry_count, ret, lastRetry>>
         ELSE Return(p, RetErr("Backend", "fatal", "op", "")) /\ UNCHANGED dbVars

FdbValueSet(p) ==
    /\ Fdb(p) /\ IsValueOp(p, "Set")
    /\ IF ~ResolveOk(CurOp(p).value, att[p])
       THEN Return(p, RetErr("InternalError", "resolve", "op", "")) /\ UNCHANGED dbVars
       ELSE IF ValueTooLarge(CurOp(p).class, Resolve(CurOp(p).value, att[p]))
       THEN Return(p, RetErr("InternalError", "Value too large", "op", ""))
            /\ UNCHANGED dbVars
       ELSE Advance(p, FdbValueSetOp(att[p], CurOp(p)))

FdbValueAtomicAdd(p) ==
    /\ Fdb(p) /\ IsValueOp(p, "AtomicAdd")
    /\ Advance(p, FdbValueAtomicAddOp(att[p], CurOp(p)))

\* trx.get(&key, false).await? and deserialize_i64_le(&bytes)?: an error
\* leaves write at once.
FdbValueAddAndGet(p) ==
    /\ Fdb(p) /\ IsValueOp(p, "AddAndGet")
    /\ \E outcome \in ReadOutcomes :
         LET t == FdbWithReadVersion(att[p]) IN
         IF outcome[1] # "ok"
         THEN Return(p, RetErr("Backend", outcome[1], "op", outcome[2]))
              /\ UNCHANGED dbVars
         ELSE IF ~FdbAddAndGetReadable(t, CurOp(p), hist[t.rv])
         THEN Return(p, RetErr("InternalError", "deserialize", "op", ""))
              /\ UNCHANGED dbVars
         ELSE Advance(p, FdbValueAddAndGetOp(t, CurOp(p), hist[t.rv]))

FdbValueClear(p) ==
    /\ Fdb(p) /\ IsValueOp(p, "Clear")
    /\ Advance(p, FdbValueClearOp(att[p], CurOp(p)))

FdbIndex(p) ==
    /\ Fdb(p) /\ IsOp(p, "Index")
    /\ Advance(p, FdbIndexOp(att[p], CurOp(p)))

\* Operation::Bitmap: the allocator's scan (values?) may fail and leaves
\* write at once; the chosen id is any id outside found_ids.
FdbBitmap(p) ==
    /\ Fdb(p) /\ IsOp(p, "Bitmap")
    /\ IF AssignId(att[p], CurOp(p))
       THEN \E outcome \in ReadOutcomes :
              LET t == FdbWithReadVersion(att[p])
                  keys == FdbScanKeys(t, hist[t.rv])
                  key_len == Len(BitmapKey(t.account_id, t.collection, "DocumentIds", 0))
              IN  IF outcome[1] # "ok"
                  THEN Return(p, RetErr("Backend", outcome[1], "op", outcome[2]))
                       /\ UNCHANGED dbVars
                  ELSE \E cuts \in SUBSET (1 .. (Len(keys) - 1)) :
                         \E id \in AvailableIds(FdbFoundIds(keys, key_len, cuts)) :
                            Advance(p, FdbBitmapOp(t, CurOp(p), id))
       ELSE Advance(p, FdbBitmapOp(att[p], CurOp(p), att[p].document_id))

FdbLog(p) ==
    /\ Fdb(p) /\ IsOp(p, "Log")
    /\ IF ~ResolveOk(CurOp(p).set, att[p])
       THEN Return(p, RetErr("InternalError", "resolve", "op", "")) /\ UNCHANGED dbVars
       ELSE Advance(p, FdbLogOp(att[p], CurOp(p)))

\* Operation::AssertValue: a failed read counts as a mismatch (Err(_) => false).
FdbAssertValue(p) ==
    /\ Fdb(p) /\ IsOp(p, "AssertValue")
    /\ \E outcome \in ReadOutcomes :
         LET t == FdbWithReadVersion(att[p])
             ok == outcome[1] = "ok" /\ FdbAssertMatches(t, CurOp(p), hist[t.rv])
         IN  IF ~ok
             THEN Return(p, RetErr("AssertValueFailed",
                                   IF outcome[1] = "ok" THEN "mismatch" ELSE outcome[1],
                                   "op", outcome[2]))
                  /\ UNCHANGED dbVars
             ELSE Advance(p, FdbAssertValueOp(t, CurOp(p)))

\* The database after the transaction's mutations are applied, atomically.
FdbCommittedPartially(d, t) == ApplyMuts(d, SubSeq(t.muts, 1, 1))
FdbCommitted(d, t) == ApplyMuts(d, t.muts)

\* A commit that happened after the read version wrote into a range read.
FdbConflicts(t) ==
    /\ t.rv # 0
    /\ \E j \in t.rv .. Len(wlog) :
         \E r \in t.rcr : \E w \in wlog[j] : Overlap(r, w)

\* The retry condition of commit's Err branch.
FdbMayRetry(count, el) == count < MAX_COMMIT_ATTEMPTS /\ el = "lt"

\* trx.commit(): succeeds when nothing conflicts; fails with a retriable
\* error (a conflict, or any other the server answers), or with a fatal one
\* (err.on_error() returns it).
FdbCommit(p) ==
    /\ Fdb(p) /\ pc[p] = "commit"
    /\ \E outcome \in ReadOutcomes :
         CASE outcome[1] = "ok" ->
                IF FdbConflicts(att[p])
                THEN \E el \in Elapsed :
                       IF FdbMayRetry(retry_count[p], el)
                       THEN Retry(p, "conflict", el, "commit")
                       ELSE Return(p, RetErr("Backend", "not_committed", "commit", el))
                            /\ UNCHANGED dbVars
                ELSE /\ hist' = Append(hist, FdbCommitted(db, att[p]))
                     /\ wlog' = Append(wlog, WriteRanges(att[p].muts))
                     /\ commitOrder' = Append(commitOrder, p)
                     /\ Return(p, RetOk(att[p]))
           [] outcome[1] = "recoverable" ->
                IF FdbMayRetry(retry_count[p], outcome[2])
                THEN Retry(p, "conflict", outcome[2], "commit")
                ELSE Return(p, RetErr("Backend", "recoverable", "commit", outcome[2]))
                     /\ UNCHANGED dbVars
           [] outcome[1] = "fatal" ->
                Return(p, RetErr("Backend", "fatal", "commit", "")) /\ UNCHANGED dbVars

\* The caller's task is cancelled at a suspension point: the open
\* transaction is dropped.
Cancel(p) ==
    /\ pc[p] \in {"begin", "run", "commit", "purge", "purge_delete", "delete_range"}
    /\ pc' = [pc EXCEPT ![p] = "cancelled"]
    /\ att' = [att EXCEPT ![p] = FreshAttempt]
    /\ UNCHANGED <<cfgVars, dbVars, pos, retry_count, ret, attempts, lastRetry>>
(***************************************************************************)
(* PostgreSQL transaction primitives (READ COMMITTED).  A table is the     *)
(* keys of one subspace; a row written by an open transaction is in its    *)
(* overlay w and locked until the transaction ends.  d is the committed    *)
(* database at the moment the statement runs.                              *)
(***************************************************************************)
PgVisible(t, d, k) == IF k \in DOMAIN t.w THEN t.w[k] # Deleted ELSE k \in DOMAIN d
PgValue(t, d, k) == IF k \in DOMAIN t.w THEN t.w[k] ELSE d[k]
PgWrite(t, k, v) == [t EXCEPT !.w = Put(@, k, v), !.locks = @ \cup {k}]
PgLock(t, k) == [t EXCEPT !.locks = @ \cup {k}]

\* INSERT INTO .. VALUES ..: fails with UNIQUE_VIOLATION on an existing row.
PgUniqueViolation(t, d, k) == PgVisible(t, d, k)
PgInsert(t, d, k, v) == PgWrite(t, k, v)
\* INSERT .. ON CONFLICT (k) DO UPDATE SET v = EXCLUDED.v
PgUpsert(t, d, k, v) == PgWrite(t, k, v)
\* INSERT .. ON CONFLICT (k) DO UPDATE SET v = t.v + EXCLUDED.v [RETURNING v]
PgUpsertAddValue(t, d, k, by) ==
    IF PgVisible(t, d, k) THEN deserialize_i64_le(PgValue(t, d, k)) + by ELSE by
PgUpsertAdd(t, d, k, by) == PgWrite(t, k, to_le_bytes(PgUpsertAddValue(t, d, k, by)))
\* INSERT .. ON CONFLICT (k) DO NOTHING
PgInsertDoNothing(t, d, k, v) == IF PgVisible(t, d, k) THEN t ELSE PgWrite(t, k, v)
\* UPDATE .. SET v = .. WHERE k = ..: the number of rows and the effect.
PgRows(t, d, k) == IF PgVisible(t, d, k) THEN 1 ELSE 0
PgUpdate(t, d, k, v) == IF PgVisible(t, d, k) THEN PgWrite(t, k, v) ELSE t
\* DELETE FROM .. WHERE k = ..
PgDelete(t, d, k) == IF PgVisible(t, d, k) THEN PgWrite(t, k, Deleted) ELSE t
\* SELECT v FROM .. WHERE k = .. FOR UPDATE
PgSelectForUpdate(t, d, k) == IF PgVisible(t, d, k) THEN PgLock(t, k) ELSE t

\* The committed database after the transaction's rows are applied.
PgApply(d, w) ==
    [k \in {x \in (DOMAIN d) \cup (DOMAIN w) :
               IF x \in DOMAIN w THEN w[x] # Deleted ELSE TRUE} |->
        IF k \in DOMAIN w THEN w[k] ELSE d[k]]

(***************************************************************************)
(* PostgresStore::write_trx: the operations of the batch interpreter.      *)
(***************************************************************************)
\* The statement ValueOp::Set prepares, by asserted_values.get(&key).
PgSetStatement(t, key) ==
    IF key \in DOMAIN t.asserted_values
    THEN IF t.asserted_values[key] THEN "UPDATE" ELSE "INSERT"
    ELSE "UPSERT"

PgValueSetOp(t, op, d) ==
    LET key == CtxValueKey(t, op.class)
        value == Resolve(op.value, t)
        s == PgSetStatement(t, key)
    IN  CASE s = "UPDATE" -> PgUpdate(t, d, key, value)
          [] s = "INSERT" -> PgInsert(t, d, key, value)
          [] s = "UPSERT" -> PgUpsert(t, d, key, value)

PgValueAtomicAddOpUpsert(t, op, d) ==
    PgUpsertAdd(t, d, CtxValueKey(t, op.class), op.by)
PgValueAtomicAddOp(t, op, d) ==
    LET key == CtxValueKey(t, op.class)
    IN  IF op.by >= 0
        THEN PgUpsertAdd(t, d, key, op.by)
        ELSE IF PgVisible(t, d, key)
             THEN PgWrite(t, key, to_le_bytes(deserialize_i64_le(PgValue(t, d, key)) + op.by))
             ELSE t

PgValueAddAndGetOp(t, op, d) ==
    LET key == CtxValueKey(t, op.class)
        t1 == PgUpsertAdd(t, d, key, op.by)
    IN  [t1 EXCEPT !.counter_ids = Append(@, PgUpsertAddValue(t, d, key, op.by))]

PgValueClearOp(t, op, d) == PgDelete(t, d, CtxValueKey(t, op.class))

PgIndexOp(t, op, d) ==
    LET key == IndexKey(t.account_id, t.collection, t.document_id, op.field, op.key)
    IN  IF op.set THEN PgInsertDoNothing(t, d, key, <<>>) ELSE PgDelete(t, d, key)

\* found_ids of the allocator: SELECT k FROM b WHERE k >= begin AND k <= end,
\* every row of the right length counted.
PgFoundIds(t, d) ==
    LET begin == BitmapKey(t.account_id, t.collection, "DocumentIds", 0)
        end == BitmapKey(t.account_id, t.collection, "DocumentIds", U32_MAX)
        key_len == Len(begin)
    IN  {deserialize_be_u32(k, key_len - U32_LEN) :
            k \in {x \in (DOMAIN d) \cup (DOMAIN t.w) :
                     /\ PgVisible(t, d, x)
                     /\ KeyLeq(begin, x) /\ KeyLeq(x, end)
                     /\ Len(x) = key_len}}

\* The context after the allocator has run (or has not).
PgBitmapAssign(t, op, id) ==
    IF AssignId(t, op)
    THEN [t EXCEPT !.document_id = id, !.document_ids = Append(@, id)]
    ELSE t

PgBitmapKey(t, op) == BitmapKey(t.account_id, t.collection, op.class, t.document_id)

\* The statement Operation::Bitmap prepares.
PgBitmapStatement(op) ==
    IF op.set
    THEN IF op.class = "DocumentIds" THEN "INSERT" ELSE "INSERT DO NOTHING"
    ELSE "DELETE"

PgBitmapOp(t, op, d, id) ==
    LET t1 == PgBitmapAssign(t, op, id)
        key == PgBitmapKey(t1, op)
        s == PgBitmapStatement(op)
    IN  CASE s = "INSERT" -> PgInsert(t1, d, key, <<>>)
          [] s = "INSERT DO NOTHING" -> PgInsertDoNothing(t1, d, key, <<>>)
          [] s = "DELETE" -> PgDelete(t1, d, key)

PgLogOp(t, op, d) ==
    PgUpsert(t, d, LogKey(t.account_id, t.collection, change_id), Resolve(op.set, t))

\* (exists, matches) of Operation::AssertValue
PgAssertExists(t, op, d) == PgVisible(t, d, CtxValueKey(t, op.class))
PgAssertMatches(t, op, d) ==
    LET key == CtxValueKey(t, op.class)
    IN  IF PgVisible(t, d, key)
        THEN matches(op.assert_value, PgValue(t, d, key))
        ELSE is_none(op.assert_value)

PgAssertValueOp(t, op, d) ==
    LET key == CtxValueKey(t, op.class)
        t1 == PgSelectForUpdate(t, d, key)
    IN  [t1 EXCEPT !.asserted_values = Put(@, key, PgAssertExists(t, op, d))]
(***************************************************************************)
(* PostgresStore::write: the retry controller, and write_trx step by step. *)
(***************************************************************************)
Pg(p) == backend = "pg"

\* The guard of the arm that retries a serialization failure or a deadlock.
PgMayRetryConflict(count, el) == count < MAX_COMMIT_ATTEMPTS /\ el = "lt"
\* The test of the CommitError::Retry arm that gives up.
PgRetryExhausted(count, el) == count > MAX_COMMIT_ATTEMPTS \/ el = "gt"

\* match err { .. } of write: err is CommitError::Postgres(code),
\* CommitError::Retry, or CommitError::Internal(kind) for a crate::Error.
PgHandleUniqueUnclassified(p, kind, code, el, at) ==
    /\ UNCHANGED dbVars
    /\ CASE kind = "Postgres" ->
              IF code = "serialization" /\ PgMayRetryConflict(retry_count[p], el)
              THEN Retry(p, "conflict", el, at)
              ELSE Return(p, RetErr("Backend", code, at, el))
         [] kind = "Retry" ->
              IF PgRetryExhausted(retry_count[p], el)
              THEN Return(p, RetErr("AssertValueFailed", "sentinel", at, el))
              ELSE Retry(p, "sentinel", el, at)
         [] OTHER -> Return(p, RetErr(kind, code, at, el))

PgHandleRetriesInternal(p, kind, code, el, at) ==
    /\ UNCHANGED dbVars
    /\ CASE kind = "Postgres" ->
              IF code = "serialization" /\ PgMayRetryConflict(retry_count[p], el)
              THEN Retry(p, "conflict", el, at)
              ELSE IF code = "unique"
              THEN Return(p, RetErr("AssertValueFailed", "unique", at, el))
              ELSE Return(p, RetErr("Backend", code, at, el))
         [] kind = "Retry" ->
              IF PgRetryExhausted(retry_count[p], el)
              THEN Return(p, RetErr("AssertValueFailed", "sentinel", at, el))
              ELSE Retry(p, "sentinel", el, at)
         [] OTHER ->
              IF retry_count[p] < MAX_COMMIT_ATTEMPTS
              THEN Retry(p, "internal", el, at)
              ELSE Return(p, RetErr(kind, code, at, el))

PgHandle(p, kind, code, el, at) ==
    /\ UNCHANGED dbVars
    /\ CASE kind = "Postgres" ->
              IF code = "serialization" /\ PgMayRetryConflict(retry_count[p], el)
              THEN Retry(p, "conflict", el, at)
              ELSE IF code = "unique"
              THEN Return(p, RetErr("AssertValueFailed", "unique", at, el))
              ELSE Return(p, RetErr("Backend", code, at, el))
         [] kind = "Retry" ->
              IF PgRetryExhausted(retry_count[p], el)
              THEN Return(p, RetErr("AssertValueFailed", "sentinel", at, el))
              ELSE Retry(p, "sentinel", el, at)
         [] OTHER -> Return(p, RetErr(kind, code, at, el))

\* Outcomes of a statement, of start() and of commit(): it runs, or the
\* server answers with a serialization failure / deadlock (el: the clock
\* when write classifies it) or with some other error.
PgOutcomes ==
    {<<"ok", "">>, <<"other", "">>} \cup {<<"serialization", el>> : el \in Elapsed}

\* The statement must wait: another open transaction holds the row.  A
\* statement that only touches existing rows does not see (nor wait for) a
\* row that is not committed yet.
PgBlocked(p, k, inserts) ==
    /\ \E q \in Procs \ {p} : k \in att[q].locks
    /\ inserts \/ k \in DOMAIN db

\* write_trx: the context is reset, the transaction is started.
PgLoopHead == [FreshAttempt EXCEPT !.base = Len(hist)]
PgBegin(p) ==
    /\ Pg(p) /\ pc[p] = "begin"
    /\ \E outcome \in {<<"ok", "">>, <<"other", "">>} :
         IF outcome[1] = "ok"
         THEN /\ Continue(p, PgLoopHead, 1)
              /\ attempts' = [attempts EXCEPT ![p] = Executed(@)]
              /\ UNCHANGED <<cfgVars, dbVars, retry_count, ret, lastRetry>>
         ELSE PgHandle(p, "Postgres", outcome[1], outcome[2], "op")

PgValueSet(p) ==
    /\ Pg(p) /\ IsValueOp(p, "Set")
    /\ \E outcome \in PgOutcomes :
         LET t == att[p]
             op == CurOp(p)
             key == CtxValueKey(t, op.class)
             s == PgSetStatement(t, key)
         IN  IF outcome[1] # "ok"
             THEN PgHandle(p, "Postgres", outcome[1], outcome[2], "op")
             ELSE IF ~ResolveOk(op.value, t)
             THEN PgHandle(p, "InternalError", "resolve", "", "op")
             ELSE /\ ~PgBlocked(p, key, s # "UPDATE")
                  /\ IF s = "INSERT" /\ PgUniqueViolation(t, db, key)
                     THEN PgHandle(p, "Postgres", "unique", "", "op")
                     ELSE IF s = "UPDATE" /\ PgRows(t, db, key) = 0
                     THEN PgHandle(p, "AssertValueFailed", "rows", "", "op")
                     ELSE Advance(p, PgValueSetOp(t, op, db))

PgValueAtomicAdd(p) ==
    /\ Pg(p) /\ IsValueOp(p, "AtomicAdd")
    /\ \E outcome \in PgOutcomes :
         LET key == CtxValueKey(att[p], CurOp(p).class)
         IN  IF outcome[1] # "ok"
             THEN PgHandle(p, "Postgres", outcome[1], outcome[2], "op")
             ELSE /\ ~PgBlocked(p, key, CurOp(p).by >= 0)
                  /\ Advance(p, PgValueAtomicAddOp(att[p], CurOp(p), db))

PgValueAddAndGet(p) ==
    /\ Pg(p) /\ IsValueOp(p, "AddAndGet")
    /\ \E outcome \in PgOutcomes :
         LET key == CtxValueKey(att[p], CurOp(p).class)
         IN  IF outcome[1] # "ok"
             THEN PgHandle(p, "Postgres", outcome[1], outcome[2], "op")
             ELSE /\ ~PgBlocked(p, key, TRUE)
                  /\ Advance(p, PgValueAddAndGetOp(att[p], CurOp(p), db))

PgValueClear(p) ==
    /\ Pg(p) /\ IsValueOp(p, "Clear")
    /\ \E outcome \in PgOutcomes :
         LET key == CtxValueKey(att[p], CurOp(p).class)
         IN  IF outcome[1] # "ok"
             THEN PgHandle(p, "Postgres", outcome[1], outcome[2], "op")
             ELSE /\ ~PgBlocked(p, key, FALSE)
                  /\ Advance(p, PgValueClearOp(att[p], CurOp(p), db))

PgIndex(p) ==
    /\ Pg(p) /\ IsOp(p, "Index")
    /\ \E outcome \in PgOutcomes :
         LET t == att[p]
             op == CurOp(p)
             key == IndexKey(t.account_id, t.collection, t.document_id, op.field, op.key)
         IN  IF outcome[1] # "ok"
             THEN PgHandle(p, "Postgres", outcome[1], outcome[2], "op")
             ELSE /\ ~PgBlocked(p, key, op.set)
                  /\ Advance(p, PgIndexOp(t, op, db))

\* Operation::Bitmap: the allocator's SELECT, then the statement on the
\* key; a UNIQUE_VIOLATION of a DocumentIds statement becomes
\* CommitError::Retry, which write classifies with the clock el.
PgBitmapScan(p) ==
    /\ Pg(p) /\ IsOp(p, "Bitmap") /\ AssignId(att[p], CurOp(p))
    /\ \E outcome \in PgOutcomes :
         IF outcome[1] # "ok"
         THEN PgHandle(p, "Postgres", outcome[1], outcome[2], "op")
         ELSE \E id \in AvailableIds(PgFoundIds(att[p], db)) :
                /\ att' = [att EXCEPT ![p] = PgBitmapAssign(att[p], CurOp(p), id)]
                /\ UNCHANGED <<cfgVars, dbVars, pc, pos, retry_count, ret, attempts,
                               lastRetry>>

\* Operation::Bitmap, the INSERT or DELETE on the key of document_id (the
\* one preset, or the one the allocator has just picked).
PgBitmap(p) ==
    /\ Pg(p) /\ IsOp(p, "Bitmap") /\ ~AssignId(att[p], CurOp(p))
    /\ \E outcome \in PgOutcomes :
         LET t == att[p]
             op == CurOp(p)
             key == PgBitmapKey(t, op)
             s == PgBitmapStatement(op)
         IN  IF outcome[1] # "ok"
             THEN PgHandle(p, "Postgres", outcome[1], outcome[2], "op")
             ELSE /\ ~PgBlocked(p, key, s # "DELETE")
                  /\ IF s = "INSERT" /\ PgUniqueViolation(t, db, key)
                     THEN \E el \in Elapsed : PgHandle(p, "Retry", "", el, "op")
                     ELSE Advance(p, PgBitmapOp(t, op, db, t.document_id))

PgLog(p) ==
    /\ Pg(p) /\ IsOp(p, "Log")
    /\ \E outcome \in PgOutcomes :
         LET t == att[p]
             key == LogKey(t.account_id, t.collection, change_id)
         IN  IF outcome[1] # "ok"
             THEN PgHandle(p, "Postgres", outcome[1], outcome[2], "op")
             ELSE IF ~ResolveOk(CurOp(p).set, t)
             THEN PgHandle(p, "InternalError", "resolve", "", "op")
             ELSE /\ ~PgBlocked(p, key, TRUE)
                  /\ Advance(p, PgLogOp(t, CurOp(p), db))

PgAssertValue(p) ==
    /\ Pg(p) /\ IsOp(p, "AssertValue")
    /\ \E outcome \in PgOutcomes :
         LET t == att[p]
             key == CtxValueKey(t, CurOp(p).class)
         IN  IF outcome[1] # "ok"
             THEN PgHandle(p, "Postgres", outcome[1], outcome[2], "op")
             ELSE /\ ~PgBlocked(p, key, FALSE)
                  /\ IF ~PgAssertMatches(t, CurOp(p), db)
                     THEN PgHandle(p, "AssertValueFailed", "mismatch", "", "op")
                     ELSE Advance(p, PgAssertValueOp(t, CurOp(p), db))

\* trx.commit(): the rows of the transaction become the committed database.
PgCommit(p) ==
    /\ Pg(p) /\ pc[p] = "commit"
    /\ \E outcome \in PgOutcomes :
         IF outcome[1] = "ok"
         THEN /\ hist' = Append(hist, PgApply(db, att[p].w))
              /\ wlog' = Append(wlog, {})
              /\ commitOrder' = Append(commitOrder, p)
              /\ Return(p, RetOk(att[p]))
         ELSE PgHandle(p, "Postgres", outcome[1], outcome[2], "commit")
(***************************************************************************)
(* purge_store                                                             *)
(***************************************************************************)
\* What a backend call of purge_store can answer.
PurgeOutcomes == {"ok", "recoverable", "fatal"}

\* value.value().iter().all(|byte| *byte == 0)
IsAllZero(value) == \A i \in 1 .. Len(value) : value[i] = 0

\* The keys one scan collects: the keys of [from_key, to_key) whose value
\* bytes are all zero, in key order.
FdbZeroKeys(d, subspace) ==
    SortKeys({k \in DOMAIN d :
                /\ InRange(k, <<subspace, 0>>,
                           <<subspace, U8_MAX, U8_MAX, U8_MAX, U8_MAX, U8_MAX>>)
                /\ IsAllZero(d[k])})

FdbPurgeSubspaces == <<SUBSPACE_COUNTER, SUBSPACE_QUOTA>>

\* One subspace is scanned, in a transaction of its own (a snapshot read).
\* After the last one: nothing collected, purge_store returns Ok.
FdbPurgeScan(p) ==
    /\ Fdb(p) /\ pc[p] = "purge"
    /\ \E outcome \in PurgeOutcomes :
         IF outcome # "ok"
         THEN Return(p, RetErr("Backend", outcome, "op", "")) /\ UNCHANGED dbVars
         ELSE LET delete_keys == att[p].delete_keys
                                   \o FdbZeroKeys(db, FdbPurgeSubspaces[pos[p]])
                  last == pos[p] = Len(FdbPurgeSubspaces)
              IN  IF last /\ delete_keys = <<>>
                  THEN Return(p, RetOk(FreshAttempt)) /\ UNCHANGED dbVars
                  ELSE /\ att' = [att EXCEPT ![p].delete_keys = delete_keys,
                                             ![p].base = IF pos[p] = 1 THEN Len(hist) ELSE @]
                       /\ pos' = [pos EXCEPT ![p] = IF last THEN @ ELSE @ + 1]
                       /\ pc' = [pc EXCEPT ![p] = IF last THEN "purge_delete" ELSE @]
                       /\ UNCHANGED <<cfgVars, dbVars, retry_count, ret, attempts, lastRetry>>

FdbPurgeMutsPlainClear(delete_keys) ==
    [i \in 1 .. Len(delete_keys) |-> MutClear(delete_keys[i])]

\* trx.atomic_op(key, &0i64.to_le_bytes(), MutationType::CompareAndClear)
\* for every collected key (one chunk of at most 1024 keys).
FdbPurgeMuts(delete_keys) ==
    [i \in 1 .. Len(delete_keys) |-> MutCompareAndClear(delete_keys[i], to_le_bytes(0))]

\* The delete transaction is committed; after an error it is built and
\* committed again while retry_count < MAX_COMMIT_ATTEMPTS and on_error
\* accepts the error.
FdbPurgeDelete(p) ==
    /\ Fdb(p) /\ pc[p] = "purge_delete"
    /\ \E outcome \in PurgeOutcomes :
         CASE outcome = "ok" ->
                /\ hist' = Append(hist, ApplyMuts(db, FdbPurgeMuts(att[p].delete_keys)))
                /\ wlog' = Append(wlog, WriteRanges(FdbPurgeMuts(att[p].delete_keys)))
                /\ commitOrder' = Append(commitOrder, p)
                /\ Return(p, RetOk(FreshAttempt))
           [] outcome = "recoverable" ->
                IF retry_count[p] < MAX_COMMIT_ATTEMPTS
                THEN /\ retry_count' = [retry_count EXCEPT ![p] = @ + 1]
                     /\ UNCHANGED <<cfgVars, dbVars, pc, pos, att, ret, attempts, lastRetry>>
                ELSE Return(p, RetErr("Backend", outcome, "commit", ""))
                     /\ UNCHANGED dbVars
           [] outcome = "fatal" ->
                Return(p, RetErr("Backend", outcome, "commit", "")) /\ UNCHANGED dbVars

PgPurgeSubspaces == <<SUBSPACE_QUOTA, SUBSPACE_COUNTER>>

\* The rows DELETE FROM {subspace} WHERE v = 0 finds.
PgZeroKeys(d, subspace) ==
    {k \in DOMAIN d : k[1] = subspace /\ deserialize_ok(d[k])
                                      /\ deserialize_i64_le(d[k]) = 0}

\* One DELETE statement, committed on its own; it waits for the rows it
\* finds that another open transaction holds.
PgPurge(p) ==
    /\ Pg(p) /\ pc[p] = "purge"
    /\ LET zero == PgZeroKeys(db, PgPurgeSubspaces[pos[p]])
           last == pos[p] = Len(PgPurgeSubspaces)
       IN  /\ \A k \in zero : ~PgBlocked(p, k, FALSE)
           /\ \E outcome \in {"ok", "other"} :
                IF outcome # "ok"
                THEN Return(p, RetErr("Postgres", outcome, "op", "")) /\ UNCHANGED dbVars
                ELSE /\ hist' = Append(hist, [k \in (DOMAIN db) \ zero |-> db[k]])
                     /\ wlog' = Append(wlog, {})
                     /\ commitOrder' = Append(commitOrder, p)
                     /\ IF last
                        THEN Return(p, RetOk(FreshAttempt))
                        ELSE /\ pos' = [pos EXCEPT ![p] = @ + 1]
                             /\ att' = [att EXCEPT ![p].base =
                                           IF pos[p] = 1 THEN Len(hist) ELSE @]
                             /\ UNCHANGED <<cfgVars, pc, retry_count, ret, attempts, lastRetry>>

(***************************************************************************)
(* delete_range(from, to): batch[p] holds the call and its two keys.       *)
(***************************************************************************)
DeleteRangeCall(from, to) == <<[op |-> "delete_range", from |-> from, to |-> to]>>

FdbDeleteRangeMutsInclusive(from, to) == <<MutClearRange(from, Append(to, 0))>>

\* trx.clear_range(&from, &to), both keys serialized with their subspace.
FdbDeleteRangeMuts(from, to) == <<MutClearRange(from, to)>>

\* One transaction, committed once: an error is returned, not retried.
FdbDeleteRange(p) ==
    /\ Fdb(p) /\ pc[p] = "delete_range"
    /\ \E outcome \in PurgeOutcomes :
         IF outcome = "ok"
         THEN LET muts == FdbDeleteRangeMuts(batch[p][1].from, batch[p][1].to)
              IN  /\ hist' = Append(hist, ApplyMuts(db, muts))
                  /\ wlog' = Append(wlog, WriteRanges(muts))
                  /\ commitOrder' = Append(commitOrder, p)
                  /\ Return(p, RetOk(FreshAttempt))
         ELSE Return(p, RetErr("Backend", outcome, "commit", "")) /\ UNCHANGED dbVars

\* The rows of DELETE FROM {from.subspace()} WHERE k >= $1 AND k < $2, the
\* parameters being the keys serialized without their subspace.
PgDeleteRangeKeys(d, from, to) ==
    {k \in DOMAIN d : /\ k[1] = from[1]
                      /\ KeyLeq(Tail(from), Tail(k))
                      /\ KeyLess(Tail(k), Tail(to))}

\* One statement, committed on its own; it waits for the rows it finds
\* that another open transaction holds.
PgDeleteRange(p) ==
    /\ Pg(p) /\ pc[p] = "delete_range"
    /\ LET rows == PgDeleteRangeKeys(db, batch[p][1].from, batch[p][1].to)
       IN  /\ \A k \in rows : ~PgBlocked(p, k, FALSE)
           /\ \E outcome \in {"ok", "other"} :
                IF outcome = "ok"
                THEN /\ hist' = Append(hist, [k \in (DOMAIN db) \ rows |-> db[k]])
                     /\ wlog' = Append(wlog, {})
                     /\ commitOrder' = Append(commitOrder, p)
                     /\ Return(p, RetOk(FreshAttempt))
                ELSE Return(p, RetErr("Postgres", outcome, "op", ""))
                     /\ UNCHANGED dbVars

(***************************************************************************)
(* Workloads.  Every caller works in account 1, collection 1.              *)
(***************************************************************************)
Ctx(d) == <<OpAccountId(1), OpCollection(1), OpDocumentId(d)>>
NoBatch == <<>>

\* The value key of document 0 and the DocumentIds bitmap keys of the model.
KProp == ValueKey("Property", 1, 1, 0)
KCounter == ValueKey("Counter", 1, 1, 0)
KDoc(id) == BitmapKey(1, 1, "DocumentIds", id)

V0 == <<5>>
VSet(p) == <<10 + p>>

\* Two callers allocate a document id in the same (account, collection).
AllocBatch == <<OpAccountId(1), OpCollection(1), OpBitmap("DocumentIds", TRUE)>>
\* AssertValue(K matches v0), then Set K.
AssertSetBatch(p, assert_value) ==
    Ctx(0) \o <<OpAssertValue("Property", assert_value), OpSet("Property", Lit(VSet(p)))>>
AddAndGetBatch == Ctx(0) \o <<OpAddAndGet("Counter", 1)>>
AtomicAddBatch == Ctx(0) \o <<OpAtomicAdd("Counter", 1)>>
\* A document is written (a chunked value, an index entry, a log entry, a
\* tag, its preset document id), and removed again by another caller.
StoreBatch ==
    Ctx(0) \o <<OpSet("Property", Lit(<<1, 2, 3>>)), OpIndex(1, <<9>>, TRUE),
                OpBitmap("Tag", TRUE), OpBitmap("DocumentIds", TRUE), OpLog(Lit(<<1>>))>>
RemoveBatch ==
    Ctx(0) \o <<OpClear("Property"), OpIndex(1, <<9>>, FALSE),
                OpBitmap("Tag", FALSE), OpBitmap("DocumentIds", FALSE)>>

\* A value of n bytes, and the value lengths around the chunking limits.
Bytes(n) == [i \in 1 .. n |-> i % 251]
ChunkLens ==
    {1, MAX_VALUE_SIZE, MAX_VALUE_SIZE + 1, 2 * MAX_VALUE_SIZE + 1,
     U8_MAX * MAX_VALUE_SIZE, (U8_MAX + 1) * MAX_VALUE_SIZE,
     (U8_MAX + 1) * MAX_VALUE_SIZE + 1}
\* The store after an earlier Set of a three-chunk value on KProp.
OldValue == [i \in 1 .. 2 * MAX_VALUE_SIZE + 1 |-> 100 + i]
ThreeChunks ==
    ApplyMuts(EmptyStore,
              FdbValueSetOp(RunContext(FreshAttempt, Ctx(0), 1).t,
                            OpSet("Property", Lit(OldValue))).muts)
\* One caller writes an index entry and Sets KProp, another Clears KProp.
ChunkSetBatch(v) == Ctx(0) \o <<OpIndex(1, <<9>>, TRUE), OpSet("Property", Lit(v))>>
ChunkClearBatch == Ctx(0) \o <<OpClear("Property")>>


\* purge_store runs beside a caller that increments a counter that is zero.
PurgeCall == <<[op |-> "purge_store"]>>
KQuota == ValueKey("Quota", 1, 1, 0)
PurgeStores ==
    {Put(EmptyStore, KCounter, to_le_bytes(0)),
     Put(Put(Put(EmptyStore, KCounter, to_le_bytes(0)), KQuota, to_le_bytes(0)),
         ValueKey("Counter", 1, 1, 1), to_le_bytes(3))}

\* delete_range over keys K1 < K2 < K3 < K4 of the values subspace (K3 is
\* longer than the others), beside keys of other subspaces, while another
\* caller Sets K2.
K1 == ValueKey("Property", 1, 1, 0)
K2 == ValueKey("Property", 1, 1, 1)
K3 == Append(K2, 0)
K4 == ValueKey("Property", 1, 1, 2)
RangeStore ==
    [k \in {K1, K2, K3, K4, KCounter, BitmapKey(1, 1, "Tag", 1),
            IndexKey(1, 1, 1, 1, <<9>>), LogKey(1, 1, change_id)} |-> <<1>>]
RangeCalls ==
    {DeleteRangeCall(from, to) :
        from \in {K1, K2}, to \in {K2, K3, K4, Append(K4, 0)}}
RangeSetBatch == Ctx(1) \o <<OpSet("Property", Lit(<<7>>))>>

\* A batch allocates a document id and goes on using it, then names
\* document 0; another asks for Bitmap{DocumentIds, set} twice.
AllocUseBatch ==
    <<OpAccountId(1), OpCollection(1), OpBitmap("DocumentIds", TRUE),
      OpSet("Property", DocRef(1)), OpBitmap("Tag", TRUE),
      OpDocumentId(0), OpSet("Property", Lit(<<4>>))>>
AllocTwiceBatch ==
    <<OpAccountId(1), OpCollection(1), OpBitmap("DocumentIds", TRUE),
      OpBitmap("Tag", TRUE), OpBitmap("DocumentIds", TRUE)>>

\* The DocumentIds range of (account 1, collection 1) holds a key longer
\* than a document id key, below the key of document 1.
ForeignKey == Append(KDoc(0), 9)
ForeignStore == Put(Put(EmptyStore, ForeignKey, <<>>), KDoc(1), <<>>)

\* Batches with two operations on one key, and one that changes the
\* context document between two Sets.
ShortA == <<1>>
LongA == Bytes(MAX_VALUE_SIZE + 1)
ShortB == <<8>>
LongB == <<7, 8, 9, 10, 11>>
SetClearBatch(a) == Ctx(0) \o <<OpSet("Property", Lit(a)), OpClear("Property")>>
ClearSetBatch(a) == Ctx(0) \o <<OpClear("Property"), OpSet("Property", Lit(a))>>
SetSetBatch(a, b) == Ctx(0) \o <<OpSet("Property", Lit(a)), OpSet("Property", Lit(b))>>
SetDocSetBatch(a, b) ==
    Ctx(0) \o <<OpSet("Property", Lit(a)), OpDocumentId(1), OpSet("Property", Lit(b))>>
OrderBatches ==
    {SetClearBatch(a) : a \in {ShortA, LongA}}
    \cup {ClearSetBatch(a) : a \in {ShortA, LongA}}
    \cup {SetSetBatch(a, b) : a \in {ShortA, LongA}, b \in {ShortB, LongB}}
    \cup {SetDocSetBatch(LongA, ShortB)}

\* Batches of AtomicAdd operations on one counter, followed by a Set of
\* another key, and the stores they run on.
AddsOf == {<<0>>, <<2>>, <<-2>>, <<2, -2>>, <<-2, 2>>, <<-2, -1>>}
AddsBatch(adds) ==
    Ctx(0) \o [i \in 1 .. Len(adds) |-> OpAtomicAdd("Counter", adds[i])]
           \o <<OpSet("Property", Lit(V0))>>
AddStores == {EmptyStore, Put(EmptyStore, KCounter, to_le_bytes(3))}

\* Sets and a Clear of a counter key, with values of any length, and the
\* Set of an empty value on a chunk-capable key.
PlainValues == {<<>>, <<1>>, Bytes(MAX_VALUE_SIZE + 1), Bytes(2 * MAX_VALUE_SIZE + 1)}
PlainBatches ==
    {Ctx(0) \o <<OpSet("Counter", Lit(v))>> : v \in PlainValues}
    \cup {Ctx(0) \o <<OpSet("Quota", Lit(Bytes(MAX_VALUE_SIZE + 1)))>>,
           Ctx(0) \o <<OpSet("Property", Lit(<<>>))>>,
           Ctx(0) \o <<OpClear("Counter")>>}
PlainStores == {EmptyStore, Put(EmptyStore, KCounter, to_le_bytes(3))}

\* Batches that assert a key and then write it, once or more than once;
\* every assertion matches what the key holds when it is evaluated.
AssertThen(assert_value, ops) ==
    Ctx(0) \o <<OpAssertValue("Property", assert_value)>> \o ops
SetA == OpSet("Property", Lit(ShortA))
SetB == OpSet("Property", Lit(ShortB))
ReassertOnAbsent ==
    {AssertThen(AssertNone, ops) :
        ops \in {<<SetA>>, <<SetA, SetB>>,
                 <<SetA, OpAssertValue("Property", AssertIs(ShortA)), SetB>>,
                 <<SetA, OpClear("Property"), SetB>>}}
ReassertOnPresent ==
    {AssertThen(AssertIs(V0), ops) :
        ops \in {<<SetA>>, <<SetA, SetB>>, <<OpClear("Property"), SetB>>,
                 <<OpClear("Property"), OpAssertValue("Property", AssertNone), SetB>>}}

Only(n, b) == [p \in Procs |-> IF p <= n THEN b ELSE NoBatch]

Scenarios ==
    {[name |-> "alloc", batch |-> Only(2, AllocBatch), store |-> s] :
        s \in {EmptyStore, Put(EmptyStore, KDoc(0), <<>>)}}
    \cup
    {[name |-> "assert",
      batch |-> [p \in Procs |-> IF p <= 2 THEN AssertSetBatch(p, AssertIs(V0)) ELSE NoBatch],
      store |-> Put(EmptyStore, KProp, V0)],
     [name |-> "assert",
      batch |-> [p \in Procs |-> IF p <= 2 THEN AssertSetBatch(p, AssertNone) ELSE NoBatch],
      store |-> EmptyStore]}
    \cup
    {[name |-> "addget", batch |-> Only(MaxProcs, AddAndGetBatch), store |-> EmptyStore]}
    \cup
    {[name |-> "atomic", batch |-> Only(MaxProcs, AtomicAddBatch), store |-> s] :
        s \in {EmptyStore, Put(EmptyStore, KCounter, to_le_bytes(0))}}
    \cup
    {[name |-> "purge",
      batch |-> [p \in Procs |-> IF p = 1 THEN PurgeCall
                                 ELSE IF p = 2 THEN AtomicAddBatch ELSE NoBatch],
      store |-> s] : s \in PurgeStores}
    \cup
    {[name |-> "range",
      batch |-> [p \in Procs |-> IF p = 1 THEN call
                                 ELSE IF p = 2 THEN RangeSetBatch ELSE NoBatch],
      store |-> RangeStore] : call \in RangeCalls}
    \cup
    {[name |-> "allocuse", batch |-> Only(1, b), store |-> s] :
        b \in {AllocUseBatch, AllocTwiceBatch},
        s \in {EmptyStore, Put(EmptyStore, KDoc(0), <<>>)}}
    \cup
    {[name |-> "foreign", batch |-> Only(1, AllocBatch), store |-> ForeignStore]}
    \cup
    {[name |-> "order", batch |-> Only(1, b), store |-> s] :
        b \in OrderBatches, s \in {EmptyStore, Put(EmptyStore, KProp, V0)}}
    \cup
    {[name |-> "document",
      batch |-> [p \in Procs |-> IF p = 1 THEN StoreBatch
                                 ELSE IF p = 2 THEN RemoveBatch ELSE NoBatch],
      store |-> s] :
        s \in {EmptyStore, Put(EmptyStore, KDoc(0), <<>>)}}

\* Workloads of one backend only.
FdbScenarios ==
    {[name |-> "chunk",
      batch |-> [p \in Procs |-> IF p = 1 THEN ChunkSetBatch(Bytes(n))
                                 ELSE IF p = 2 THEN ChunkClearBatch ELSE NoBatch],
      store |-> s] :
        n \in ChunkLens, s \in {EmptyStore, ThreeChunks}}
    \cup
    {[name |-> "plain", batch |-> Only(1, b), store |-> s] :
        b \in PlainBatches, s \in PlainStores}

PgScenarios ==
    {[name |-> "reassert", batch |-> Only(1, b), store |-> EmptyStore] :
        b \in ReassertOnAbsent}
    \cup
    {[name |-> "reassert", batch |-> Only(1, b), store |-> Put(EmptyStore, KProp, V0)] :
        b \in ReassertOnPresent}
    \cup
    {[name |-> "add", batch |-> Only(1, AddsBatch(adds)), store |-> s] :
        adds \in AddsOf, s \in AddStores}

BackendScenarios(b) == IF b = "fdb" THEN FdbScenarios ELSE PgScenarios

\* Where a caller starts: in write, in purge_store or in delete_range.
StartPc(b) ==
    IF b = NoBatch THEN "unused"
    ELSE IF b = PurgeCall THEN "purge"
    ELSE IF b[1].op = "delete_range" THEN "delete_range" ELSE "begin"

\* The state after construction, for one of the workloads scs.
Start(scs) ==
    /\ \E sc \in scs :
         /\ scenario = sc.name
         /\ batch = sc.batch
         /\ hist = <<sc.store>>
         /\ pc = [p \in Procs |-> StartPc(sc.batch[p])]
    /\ wlog = <<>>
    /\ commitOrder = <<>>
    /\ pos = [p \in Procs |-> 1]
    /\ retry_count = [p \in Procs |-> 0]
    /\ att = [p \in Procs |-> FreshAttempt]
    /\ ret = [p \in Procs |-> NoRet]
    /\ attempts = [p \in Procs |-> 0]
    /\ lastRetry = [p \in Procs |-> NoRetry]

Init ==
    /\ backend \in {"fdb", "pg"}
    /\ Start(Scenarios \cup BackendScenarios(backend))

\* The workloads of the liveness check: all but the values of up to 257
\* chunks, whose Set and Clear are the steps the other workloads take.
FairInit ==
    /\ backend \in {"fdb", "pg"}
    /\ Start(Scenarios \cup (BackendScenarios(backend) \ FdbScenarios))

FdbNext(p) ==
    \/ FdbBegin(p) \/ FdbValueSet(p) \/ FdbValueAtomicAdd(p)
    \/ FdbValueAddAndGet(p) \/ FdbValueClear(p) \/ FdbIndex(p) \/ FdbBitmap(p)
    \/ FdbLog(p) \/ FdbAssertValue(p) \/ FdbCommit(p)

PgNext(p) ==
    \/ PgBegin(p) \/ PgValueSet(p) \/ PgValueAtomicAdd(p)
    \/ PgValueAddAndGet(p) \/ PgValueClear(p) \/ PgIndex(p) \/ PgBitmapScan(p)
    \/ PgBitmap(p)
    \/ PgLog(p) \/ PgAssertValue(p) \/ PgCommit(p)

PurgeNext(p) == FdbPurgeScan(p) \/ FdbPurgeDelete(p) \/ PgPurge(p)
DeleteRangeNext(p) == FdbDeleteRange(p) \/ PgDeleteRange(p)

Next ==
    \E p \in Procs :
        FdbNext(p) \/ PgNext(p) \/ PurgeNext(p) \/ DeleteRangeNext(p) \/ Cancel(p)

Spec == Init /\ [][Next]_vars
(***************************************************************************)
(* One execution of a batch, alone, against the database d: the            *)
(* interpreter's operations applied in order, the allocator returning the  *)
(* ids given.                                                              *)
(***************************************************************************)
FdbExec(t, op, snap, id) ==
    CASE IsContextOp(op) -> SetContext(t, op)
      [] op.op = "Value" ->
            (CASE op.vop = "Set" -> FdbValueSetOp(t, op)
               [] op.vop = "AtomicAdd" -> FdbValueAtomicAddOp(t, op)
               [] op.vop = "AddAndGet" -> FdbValueAddAndGetOp(t, op, snap)
               [] op.vop = "Clear" -> FdbValueClearOp(t, op))
      [] op.op = "Index" -> FdbIndexOp(t, op)
      [] op.op = "Bitmap" -> FdbBitmapOp(t, op, id)
      [] op.op = "Log" -> FdbLogOp(t, op)
      [] op.op = "AssertValue" -> FdbAssertValueOp(t, op)

PgExec(t, op, d, id) ==
    CASE IsContextOp(op) -> SetContext(t, op)
      [] op.op = "Value" ->
            (CASE op.vop = "Set" -> PgValueSetOp(t, op, d)
               [] op.vop = "AtomicAdd" -> PgValueAtomicAddOp(t, op, d)
               [] op.vop = "AddAndGet" -> PgValueAddAndGetOp(t, op, d)
               [] op.vop = "Clear" -> PgValueClearOp(t, op, d))
      [] op.op = "Index" -> PgIndexOp(t, op, d)
      [] op.op = "Bitmap" -> PgBitmapOp(t, op, d, id)
      [] op.op = "Log" -> PgLogOp(t, op, d)
      [] op.op = "AssertValue" -> PgAssertValueOp(t, op, d)

\* The id the allocator returns at this point of the run.
NextId(t, ids) ==
    IF Len(t.document_ids) < Len(ids) THEN ids[Len(t.document_ids) + 1] ELSE t.document_id

RECURSIVE RunAlone(_, _, _, _, _)
RunAlone(b, t, ops, d, ids) ==
    IF ops = <<>> THEN t
    ELSE RunAlone(b,
                  IF b = "fdb" THEN FdbExec(t, Head(ops), d, NextId(t, ids))
                  ELSE PgExec(t, Head(ops), d, NextId(t, ids)),
                  Tail(ops), d, ids)

AppliedOnce(b, d, ops, ids) ==
    LET t == RunAlone(b, FreshAttempt, ops, d, ids)
    IN  IF b = "fdb" THEN ApplyMuts(d, t.muts) ELSE PgApply(d, t.w)

\* Caller p's write returns Ok in this step.
Commits(p) == ret[p].kind = "none" /\ ret'[p].kind = "Ok"

\* The step is one of a maintenance call (purge_store, delete_range), not
\* of write.
Maintenance ==
    \E p \in Procs : pc[p] \in {"purge", "purge_delete", "delete_range"}
                         /\ (pc'[p] # pc[p] \/ pos'[p] # pos[p])

\* C1: write(batch) is all-or-nothing, on both backends.  Apart from the
\* steps of purge_store and delete_range, which are not writes, the committed
\* database changes only in a step in which some call's commit succeeds (so
\* an attempt that fails, or is cancelled, leaves none of its writes); and
\* that step takes the database to the state one execution of the batch
\* produces from it, however many attempts failed before (on the SQL
\* backend, whose statements run READ COMMITTED: when nothing else was
\* committed while the attempt ran).
C1_AllOrNothing ==
    [][(hist' # hist /\ ~Maintenance) =>
         \E p \in Procs :
            /\ Commits(p)
            /\ hist' = Append(hist, db')
            /\ (backend = "fdb" \/ att[p].base = Len(hist)) =>
                  db' = AppliedOnce(backend, db, batch[p], ret'[p].document_ids)]_vars

\* A call has committed after failed attempts, changing the database,
\* while the other call failed or was cancelled.
C1_Witness ==
    \E p \in Procs, q \in Procs :
       /\ ret[p].kind = "Ok" /\ attempts[p] >= 2 /\ db # hist[1]
       /\ q # p /\ attempts[q] >= 1
       /\ (pc[q] = "cancelled" \/ ret[q].kind \notin {"none", "Ok"})

\* Caller p's write has returned Ok with an id from the allocator.
Allocated(p) == scenario = "alloc" /\ batch[p] = AllocBatch /\ ret[p].kind = "Ok"
\* The committed database right after caller p's commit.
AfterCommitOf(p) ==
    hist[1 + CHOOSE i \in 1 .. Len(commitOrder) : commitOrder[i] = p]
\* Caller q's running attempt holds an id another caller has committed.
HoldsCommittedId(q) ==
    /\ pc[q] \in {"run", "commit"} /\ att[q].document_ids # <<>>
    /\ \E p \in Procs \ {q} : Allocated(p) /\ ret[p].document_ids = att[q].document_ids

AssertPair(p, q) == scenario = "assert" /\ p # q /\ p \in 1 .. 2 /\ q \in 1 .. 2
\* The backend failed on its own account (not because of the other batch).
BackendFault(r) == r.kind = "Backend" /\ r.code # "not_committed"
\* No committed state holds a Set value of a call that did not commit.
ValueAt(d, k) == IF k \in DOMAIN d THEN <<d[k]>> ELSE <<>>
OnlyCommittedSets ==
    scenario = "assert" =>
       \A i \in 1 .. Len(hist) :
          ValueAt(hist[i], KProp) # ValueAt(hist[1], KProp) =>
             \E p \in 1 .. 2 : ret[p].kind = "Ok" /\ ValueAt(hist[i], KProp) = <<VSet(p)>>

\* C3 as stated: of two concurrent batches AssertValue(K matches v0) + Set K,
\* at most one commits, the other returns AssertValueFailed (backend faults
\* aside) and its Set value is never stored.
C3_LoserAssertValueFailed ==
    /\ OnlyCommittedSets
    /\ \A p \in Procs, q \in Procs :
          AssertPair(p, q) /\ ret[p].kind = "Ok" /\ pc[q] = "done"
          /\ ~BackendFault(ret[q]) =>
             ret[q].kind = "AssertValueFailed"

\* C3: of two concurrent batches AssertValue(K matches v0) + Set K (v0 a
\* value or 'absent'), on both backends: at most one commits; the Set value
\* of the other is never in a committed state; the other returns
\* AssertValueFailed, or a backend error: on FDB its commit conflict itself,
\* when the retry budget does not allow the re-execution that would find
\* the assertion failed.
C3_AssertThenSet ==
    /\ OnlyCommittedSets
    /\ \A p \in Procs, q \in Procs :
          AssertPair(p, q) /\ ret[p].kind = "Ok" /\ pc[q] = "done" =>
             /\ ret[q].kind \in {"AssertValueFailed", "Backend"}
             /\ ret[q].code = "not_committed" =>
                   /\ backend = "fdb" /\ ret[q].at = "commit"
                   /\ ~FdbMayRetry(retry_count[q], ret[q].elapsed)

\* One batch has committed; the other found its assertion failed: on FDB in
\* the re-execution after its commit conflicted.
C3_Witness ==
    \E p \in Procs, q \in Procs :
       /\ AssertPair(p, q) /\ ret[p].kind = "Ok"
       /\ ret[q].kind = "AssertValueFailed" /\ ret[q].code \in {"mismatch", "unique", "rows"}
       /\ backend = "fdb" => attempts[q] = 2 /\ lastRetry[q].cause = "conflict"

\* The position of caller p in the order of commits (0: has not committed).
CommitRank(p) ==
    IF \E i \in 1 .. Len(commitOrder) : commitOrder[i] = p
    THEN CHOOSE i \in 1 .. Len(commitOrder) : commitOrder[i] = p
    ELSE 0

\* C4: concurrent calls that each do AddAndGet(+1) on the same key, absent
\* at the start, on both backends: the call that commits j-th returns j (so
\* the returned values are distinct and form 1..N in commit order), and the
\* stored value always is the number of calls committed so far.
C4_AddAndGetInCommitOrder ==
    scenario = "addget" =>
       /\ \A p \in Procs :
             ret[p].kind = "Ok" => ret[p].counter_ids = <<CommitRank(p)>> /\ CommitRank(p) >= 1
       /\ ValueAt(db, KCounter) =
             IF commitOrder = <<>> THEN <<>> ELSE <<to_le_bytes(Len(commitOrder))>>

\* All calls have committed, one of them after a re-execution.
C4_Witness ==
    /\ scenario = "addget"
    /\ \A p \in Procs : ret[p].kind = "Ok"
    /\ \E p \in Procs : attempts[p] >= 2 /\ ret[p].counter_ids = <<MaxProcs>>

\* The calls of the scenario whose write has returned Ok.
Committed == {p \in Procs : ret[p].kind = "Ok"}

\* C5: concurrent calls that each do AtomicAdd(+1) on the same counter key,
\* 0 or absent at the start, on both backends: once all of them have
\* committed the stored value is their number (and at every moment it is
\* the number of calls committed so far: no addition is lost or doubled).
C5_AtomicAddConverges ==
    scenario = "atomic" =>
       /\ Cardinality(Committed) = Len(commitOrder)
       /\ commitOrder # <<>> => ValueAt(db, KCounter) = <<to_le_bytes(Len(commitOrder))>>
       /\ Committed = Procs => ValueAt(db, KCounter) = <<to_le_bytes(MaxProcs)>>

\* All calls have committed, one of them after a re-execution, on a counter
\* that was absent.
C5_Witness ==
    /\ scenario = "atomic" /\ hist[1] = EmptyStore
    /\ Committed = Procs
    /\ \E p \in Procs : attempts[p] >= 2

\* Caller p is at an AssertValue whose predicate the stored value (as the
\* attempt's transaction reads it) does not satisfy.
AssertionFails(p) ==
    /\ IsOp(p, "AssertValue")
    /\ IF backend = "fdb"
       THEN ~FdbAssertMatches(FdbWithReadVersion(att[p]), CurOp(p), FdbSnap(att[p]))
       ELSE ~PgAssertMatches(att[p], CurOp(p), db)
\* Caller p takes a step.
Moves(p) == pc'[p] # pc[p] \/ pos'[p] # pos[p]

\* C6: an AssertValue whose predicate the stored value does not satisfy
\* (value present and not matched, or key missing and the predicate not
\* is_none) makes write return AssertValueFailed from that attempt, and a
\* call that has returned AssertValueFailed starts no other attempt, on
\* both backends and whatever the attempt counter and the clock are.  (The
\* step can end otherwise only when the call is cancelled or, on the SQL
\* backend, when the SELECT itself fails, which the controller handles as a
\* backend error.)
C6_AssertMismatchNotRetried ==
    /\ [](\A p \in Procs : ret[p].kind = "AssertValueFailed" => pc[p] = "done")
    /\ [][\A p \in Procs :
            /\ AssertionFails(p) /\ Moves(p) =>
                 \/ pc'[p] = "cancelled"
                 \/ /\ pc'[p] = "done" /\ ret'[p].kind = "AssertValueFailed"
                    /\ attempts'[p] = attempts[p] /\ retry_count'[p] = retry_count[p]
                 \/ /\ backend = "pg"
                    /\ \/ pc'[p] = "begin" /\ lastRetry'[p].cause = "conflict"
                       \/ pc'[p] = "done" /\ ret'[p].kind = "Backend"
            /\ ret[p].kind = "AssertValueFailed" =>
                 attempts'[p] = attempts[p] /\ pc'[p] = "done"]_vars

\* A call has returned AssertValueFailed for a mismatch found in a
\* re-execution, its attempt counter below the maximum.
C6_Witness ==
    \E p \in Procs :
       /\ ret[p].kind = "AssertValueFailed" /\ ret[p].code = "mismatch"
       /\ retry_count[p] \in 1 .. (MAX_COMMIT_ATTEMPTS - 1)

\* Caller p's write decides in this step to execute the batch again.
Reexecutes(p) == retry_count'[p] = retry_count[p] + 1

\* C7: for a recoverable conflict and for the SQL allocator retry sentinel
\* alike, write executes the batch again only if, when the failure is
\* classified, the attempt counter is below MAX_COMMIT_ATTEMPTS and the
\* elapsed time below MAX_COMMIT_TIME; so no call executes its batch more
\* than MAX_COMMIT_ATTEMPTS + 1 times.
C7_RetryWithinBudget ==
    /\ [](\A p \in Procs : attempts[p] <= MAX_COMMIT_ATTEMPTS + 1)
    /\ [][\A p \in Procs :
            Reexecutes(p) =>
               /\ lastRetry'[p].cause \in {"conflict", "sentinel"}
               /\ retry_count[p] < MAX_COMMIT_ATTEMPTS
               /\ lastRetry'[p].elapsed = "lt"]_vars

(***************************************************************************)
(* Every backend call and every backoff sleep returns: a caller that can   *)
(* take its next step (it is not waiting for a row another transaction     *)
(* holds) eventually takes it.                                             *)
(***************************************************************************)
FairSpec == FairInit /\ [][Next]_vars /\ \A p \in Procs : WF_vars(FdbNext(p) \/ PgNext(p) \/ PurgeNext(p) \/ DeleteRangeNext(p))

\* The call of p is over: write has returned, or the caller was cancelled.
Returned(p) == pc[p] \in {"unused", "done", "cancelled"}

\* C8: every call to write eventually returns, when every backend call and
\* every backoff sleep returns: also when every attempt fails with a
\* recoverable conflict or with the allocator retry sentinel, the retry
\* loop stops after a bounded number of executions.
C8_WriteReturns ==
    /\ \A p \in Procs : <>[]Returned(p)
    /\ [](\A p \in Procs :
            retry_count[p] <= MAX_COMMIT_ATTEMPTS + 1 /\ attempts[p] <= MAX_COMMIT_ATTEMPTS + 2)

\* A call has returned an error after every one of its attempts failed and
\* was retried as often as the controller allows.
C8_Witness ==
    \E p \in Procs :
       /\ pc[p] = "done" /\ ret[p].kind # "Ok"
       /\ retry_count[p] >= MAX_COMMIT_ATTEMPTS /\ attempts[p] = retry_count[p] + 1

\* Caller p's next statement is the INSERT of a DocumentIds bitmap key that
\* is in the table; or the plain INSERT of a value row that is in the table.
DocIdInsertCollides(p) ==
    /\ backend = "pg" /\ IsOp(p, "Bitmap") /\ ~AssignId(att[p], CurOp(p))
    /\ PgBitmapStatement(CurOp(p)) = "INSERT"
    /\ PgUniqueViolation(att[p], db, PgBitmapKey(att[p], CurOp(p)))
OtherInsertCollides(p) ==
    /\ backend = "pg" /\ IsValueOp(p, "Set")
    /\ PgSetStatement(att[p], CtxValueKey(att[p], CurOp(p).class)) = "INSERT"
    /\ PgUniqueViolation(att[p], db, CtxValueKey(att[p], CurOp(p).class))
\* The step of p ends with the server failing the statement for a reason of
\* its own (serialization failure, deadlock, any other error).
ServerFails(p) ==
    \/ pc'[p] = "begin" /\ lastRetry'[p].cause = "conflict"
    \/ pc'[p] = "done" /\ ret'[p].kind = "Backend"
                       /\ ret'[p].code \in {"serialization", "other"}

\* C9: the SQL backend classifies a failed attempt so: a unique violation of
\* a DocumentIds bitmap insert is retried, and returns AssertValueFailed
\* once the budget of the retry sentinel is exhausted; a unique violation
\* of any other statement returns AssertValueFailed with no re-execution; a
\* serialization failure or deadlock is re-executed only within the budget
\* and otherwise returned, and any other backend error is returned, as that
\* backend error and with no re-execution.
C9_SqlClassification ==
    [][\A p \in Procs :
         backend = "pg" /\ Moves(p) /\ pc'[p] # "cancelled" =>
            /\ DocIdInsertCollides(p) /\ ~ServerFails(p) =>
                 \/ /\ Reexecutes(p) /\ lastRetry'[p].cause = "sentinel"
                    /\ ~PgRetryExhausted(retry_count[p], lastRetry'[p].elapsed)
                 \/ /\ pc'[p] = "done" /\ retry_count'[p] = retry_count[p]
                    /\ ret'[p].kind = "AssertValueFailed"
                    /\ PgRetryExhausted(retry_count[p], ret'[p].elapsed)
            /\ OtherInsertCollides(p) /\ ~ServerFails(p) =>
                 /\ pc'[p] = "done" /\ retry_count'[p] = retry_count[p]
                 /\ ret'[p].kind = "AssertValueFailed"
            /\ Reexecutes(p) =>
                 \/ /\ lastRetry'[p].cause = "conflict"
                    /\ retry_count[p] < MAX_COMMIT_ATTEMPTS /\ lastRetry'[p].elapsed = "lt"
                 \/ lastRetry'[p].cause = "sentinel" /\ DocIdInsertCollides(p)
            /\ ret[p].kind = "none" /\ ret'[p].kind = "Backend" =>
                 /\ retry_count'[p] = retry_count[p]
                 /\ ret'[p].code \in {"serialization", "other"}
                 /\ ret'[p].code = "serialization" =>
                       ~(retry_count[p] < MAX_COMMIT_ATTEMPTS /\ ret'[p].elapsed = "lt")]_vars

\* The three classes have happened: a call returned AssertValueFailed when
\* the sentinel's budget was exhausted; or for the unique violation of a
\* value INSERT; or returned a serialization failure it could not retry.
C9_Witness ==
    /\ backend = "pg"
    /\ \E p \in Procs :
          /\ ret[p].kind = "AssertValueFailed" /\ ret[p].code = "sentinel"
          /\ retry_count[p] = MAX_COMMIT_ATTEMPTS + 1
    /\ \E q \in Procs :
          \/ ret[q].kind = "Backend" /\ ret[q].code = "serialization"
          \/ ret[q].kind = "Backend" /\ ret[q].code = "other"

\* C10: on both backends a failure raised while an operation of the batch
\* runs (before commit) reaches the retry controller: a recoverable backend
\* conflict is surfaced only when the budget is exhausted (attempt counter
\* not below MAX_COMMIT_ATTEMPTS, or elapsed not below MAX_COMMIT_TIME), and
\* otherwise the batch is executed again; and nothing but a recoverable
\* conflict or the allocator retry sentinel causes a re-execution.
C10_OpFailuresReachController ==
    [][\A p \in Procs :
         /\ Reexecutes(p) => lastRetry'[p].cause \in {"conflict", "sentinel"}
         /\ (ret[p].kind = "none" /\ ret'[p].at = "op"
               /\ ret'[p].code \in {"recoverable", "serialization"}) =>
               ~(retry_count[p] < MAX_COMMIT_ATTEMPTS /\ ret'[p].elapsed = "lt")]_vars
(***************************************************************************)
(* Chunked values (FoundationDB).                                          *)
(***************************************************************************)
\* The value the first caller Sets on KProp in the "chunk" workload, and
\* the records the chunk-aware read of a key scans.
ChunkV == batch[1][Len(batch[1])].value.bytes
RecordsOf(d, key) == {k \in DOMAIN d : InRange(k, key, Append(key, U8_MAX))}
SetCommits == backend = "fdb" /\ scenario = "chunk" /\ Commits(1)

\* C11: on FoundationDB, whatever the key held before (a multi-chunk value
\* included), once a Set of a value of at most MAX_VALUE_SIZE bytes is
\* committed the chunk-aware read of the key returns exactly that value, and
\* the value is held in one record, at the bare key.
C11_SmallSetReadsBack ==
    [][(SetCommits /\ Len(ChunkV) <= MAX_VALUE_SIZE)
         => /\ read_chunked_value(hist'[Len(hist')], KProp) = <<TRUE, ChunkV>>
            /\ RecordsOf(hist'[Len(hist')], KProp) = {KProp}]_vars

\* C12: on FoundationDB, for a value of more than MAX_VALUE_SIZE and at
\* most 256 * MAX_VALUE_SIZE bytes the Set succeeds (the operation does not
\* end the call with an error), once committed the chunk-aware read returns
\* exactly the value, and a committed Clear leaves no record of the key,
\* base or chunk.
UpTo256Chunks ==
    Len(ChunkV) > MAX_VALUE_SIZE /\ Len(ChunkV) <= (U8_MAX + 1) * MAX_VALUE_SIZE
SetRuns == backend = "fdb" /\ scenario = "chunk" /\ IsValueOp(1, "Set")
C12_SetSucceeds ==
    (SetRuns /\ UpTo256Chunks) => (pc'[1] = "done" => ret'[1].kind = "Ok")
C12_ReadsBack ==
    (SetCommits /\ UpTo256Chunks)
        => read_chunked_value(hist'[Len(hist')], KProp) = <<TRUE, ChunkV>>
C12_ClearRemovesAll ==
    (backend = "fdb" /\ scenario = "chunk" /\ Commits(2))
        => RecordsOf(hist'[Len(hist')], KProp) = {}
C12_ChunkedSetAndClear ==
    [][C12_SetSucceeds /\ C12_ReadsBack /\ C12_ClearRemovesAll]_vars

\* C13: on FoundationDB, a Set of a value of more than 256 * MAX_VALUE_SIZE
\* bytes on a chunk-capable key ends the call with InternalError("Value too
\* large") at that operation; the batch is not executed again, and no
\* committed state ever holds a record the batch wrote: neither at the key
\* or a chunk sub-key of it, nor the index entry of its earlier operation
\* (every committed record is one the store held before).
TooLargeCase ==
    /\ backend = "fdb" /\ scenario = "chunk"
    /\ Len(ChunkV) > (U8_MAX + 1) * MAX_VALUE_SIZE
C13_TooLargeFails ==
    [][TooLargeCase
         => /\ (IsValueOp(1, "Set") /\ Moves(1) /\ pc'[1] # "cancelled")
                 => /\ pc'[1] = "done"
                    /\ ret'[1] = RetErr("InternalError", "Value too large", "op", "")
            /\ retry_count'[1] = 0 /\ attempts'[1] <= 1
            /\ \A k \in DOMAIN hist'[Len(hist')] :
                  k \in DOMAIN hist[1] /\ hist'[Len(hist')][k] = hist[1][k]]_vars
C13_Witness ==
    /\ TooLargeCase
    /\ ret[1].kind = "InternalError" /\ ret[1].code = "Value too large"
    /\ Len(hist) > 1

(***************************************************************************)
(* purge_store.                                                            *)
(***************************************************************************)
CounterSpaces == {SUBSPACE_COUNTER, SUBSPACE_QUOTA}
ZeroValued(d, k) == deserialize_ok(d[k]) /\ deserialize_i64_le(d[k]) = 0
PurgeStep(p) ==
    pc[p] \in {"purge", "purge_delete"} /\ (pc'[p] # pc[p] \/ pos'[p] # pos[p])
\* No call but p has committed since p's purge_store started.
PurgedAlone(p) ==
    \A i \in 1 .. Len(commitOrder) : i >= att[p].base => commitOrder[i] = p

\* C14: on both backends a step of purge_store removes only keys of the
\* counter and quota subspaces whose committed value is zero at that moment
\* and changes no other key: a key that a concurrent AtomicAdd made non-zero
\* after the scan collected it keeps its incremented value.  And when
\* purge_store returns Ok with no other call having committed meanwhile, no
\* key with value zero is left in the two subspaces.
C14_PurgeRemovesZeroKeys ==
    [][\A p \in Procs :
         PurgeStep(p) =>
            /\ DOMAIN hist'[Len(hist')] \subseteq DOMAIN db
            /\ \A k \in DOMAIN db :
                  IF k \in DOMAIN hist'[Len(hist')]
                  THEN hist'[Len(hist')][k] = db[k]
                  ELSE k[1] \in CounterSpaces /\ ZeroValued(db, k)
            /\ (ret'[p].kind = "Ok" /\ PurgedAlone(p))
                  => \A k \in DOMAIN hist'[Len(hist')] :
                        k[1] \in CounterSpaces => ~ZeroValued(hist'[Len(hist')], k)]_vars

\* The distributed-KV purge collected the zero counter, the increment was
\* committed next, then the purge delete: the counter is still there.
C14_Witness ==
    /\ backend = "fdb" /\ scenario = "purge"
    /\ DOMAIN hist[1] = {KCounter}
    /\ commitOrder = <<2, 1>> /\ ret[1].kind = "Ok"
    /\ KCounter \in DOMAIN db /\ db[KCounter] = to_le_bytes(1)

(***************************************************************************)
(* delete_range.                                                           *)
(***************************************************************************)
DeleteRangeStep(p) == pc[p] = "delete_range" /\ pc'[p] = "done"
\* k is a key of the subspace of from with from <= k < to.
InDeletedRange(k, from, to) == k[1] = from[1] /\ KeyLeq(from, k) /\ KeyLess(k, to)

\* C15: on both backends, delete_range(from, to), from and to being keys of
\* one subspace, removes every key k of that subspace with from <= k < to
\* when it returns Ok, and changes nothing else: the key to, the keys below
\* from or at or above to, and the keys of the other subspaces keep their
\* values; a call that fails removes nothing.
C15_DeleteRangeExact ==
    [][\A p \in Procs :
         DeleteRangeStep(p) =>
            LET from == batch[p][1].from
                to == batch[p][1].to
                after == hist'[Len(hist')]
            IN  IF ret'[p].kind = "Ok"
                THEN /\ DOMAIN after \subseteq DOMAIN db
                     /\ \A k \in DOMAIN db :
                           IF InDeletedRange(k, from, to)
                           THEN k \notin DOMAIN after
                           ELSE k \in DOMAIN after /\ after[k] = db[k]
                ELSE hist' = hist]_vars

\* delete_range(K2, K4) has removed K2 and K3 only.
C15_Witness ==
    /\ scenario = "range" /\ batch[1] = DeleteRangeCall(K2, K4)
    /\ ret[1].kind = "Ok" /\ commitOrder = <<1>>
    /\ DOMAIN db = (DOMAIN RangeStore) \ {K2, K3}

(***************************************************************************)
(* Attempts and the AssignedIds returned.                                  *)
(***************************************************************************)
\* The allocations a batch triggers and the AddAndGet operations it holds,
\* counted over its operations from the context document id doc on.
RECURSIVE Allocations(_, _)
Allocations(ops, doc) ==
    IF ops = <<>> THEN 0
    ELSE LET op == Head(ops)
         IN  IF op.op = "DocumentId" THEN Allocations(Tail(ops), op.document_id)
             ELSE IF op.op = "Bitmap" /\ op.class = "DocumentIds" /\ op.set /\ doc = U32_MAX
             THEN 1 + Allocations(Tail(ops), 0)
             ELSE Allocations(Tail(ops), doc)
AddAndGets(ops) ==
    Cardinality({i \in 1 .. Len(ops) : ops[i].op = "Value" /\ ops[i].vop = "AddAndGet"})
StartsAttempt(p) == pc[p] = "begin" /\ pc'[p] \in {"run", "commit"}
WriteCommits(p) == pc[p] = "commit" /\ Commits(p)

\* C16: on both backends every attempt of write starts from the sentinel
\* context, an empty AssignedIds and a fresh transaction (nothing of an
\* earlier attempt is left when the next one begins), and the AssignedIds
\* returned on success are those of the committing attempt: one document id
\* per allocation the batch triggers, whose bitmap key that commit wrote,
\* and one counter result per AddAndGet, the counter's committed value.
C16_AttemptsStartFresh ==
    [][\A p \in Procs :
         /\ pc'[p] = "begin" => att'[p] = FreshAttempt
         /\ StartsAttempt(p) =>
               att'[p] = RunContext([FreshAttempt EXCEPT !.base = Len(hist)],
                                    batch[p], 1).t
         /\ WriteCommits(p) =>
               /\ ret'[p].document_ids = att[p].document_ids
               /\ ret'[p].counter_ids = att[p].counter_ids
               /\ Len(ret'[p].document_ids) = Allocations(batch[p], U32_MAX)
               /\ Len(ret'[p].counter_ids) = AddAndGets(batch[p])
               /\ \A i \in 1 .. Len(ret'[p].document_ids) :
                     KDoc(ret'[p].document_ids[i]) \in DOMAIN hist'[Len(hist')]
               /\ \A i \in 1 .. Len(ret'[p].counter_ids) :
                     hist'[Len(hist')][KCounter] = to_le_bytes(ret'[p].counter_ids[i])]_vars

\* A call has committed in a later attempt, after one that had allocated an
\* id too, and returns one document id.
C16_Witness ==
    \E p \in Procs :
        /\ scenario = "alloc" /\ ret[p].kind = "Ok"
        /\ attempts[p] >= 2 /\ lastRetry[p].cause # "none"
        /\ Len(ret[p].document_ids) = 1

(***************************************************************************)
(* The allocator inside a batch.                                           *)
(***************************************************************************)
\* The allocator has run in this step: AssignedIds has one more document id.
AllocatorRan(p) == Len(att'[p].document_ids) = Len(att[p].document_ids) + 1
Trigger(p) ==
    /\ IsOp(p, "Bitmap") /\ CurOp(p).set /\ CurOp(p).class = "DocumentIds"
    /\ att[p].document_id = U32_MAX
\* The operation has been executed and the attempt goes on.
GoesOn(p) == pc'[p] \in {"run", "commit"} /\ att'[p] # att[p]

\* C17: on both backends the allocator runs for an operation exactly when
\* the operation is Bitmap{DocumentIds, set=true} and the context
\* document_id is u32::MAX; the id it chooses is appended to AssignedIds and
\* becomes the context document_id, so a later Bitmap{DocumentIds,
\* set=true} of the batch does not allocate, and the keys the batch writes
\* afterwards carry that id until a DocumentId operation names another.
C17_AllocatorTrigger ==
    [][\A p \in Procs :
         /\ (pc[p] = "run" /\ AllocatorRan(p)) => Trigger(p)
         /\ (Trigger(p) /\ GoesOn(p)) => AllocatorRan(p)
         /\ (pc[p] = "run" /\ AllocatorRan(p)) =>
               /\ att'[p].document_id = att'[p].document_ids[Len(att'[p].document_ids)]
               /\ att'[p].document_id # U32_MAX
         /\ (WriteCommits(p) /\ batch[p] = AllocUseBatch) =>
               LET id == ret'[p].document_ids[1]
                   after == hist'[Len(hist')]
               IN  /\ ret'[p].document_ids = <<id>>
                   /\ DOMAIN after = (DOMAIN db) \cup
                         {KDoc(id), ValueKey("Property", 1, 1, id),
                          BitmapKey(1, 1, "Tag", id), ValueKey("Property", 1, 1, 0)}
                   /\ after[ValueKey("Property", 1, 1, 0)] = <<4>>
                   /\ id # 0 => after[ValueKey("Property", 1, 1, id)] = <<id>>]_vars

\* The batch has committed with an allocated id other than 0: its value and
\* tag are stored under that id, the last Set under document 0.
C17_Witness ==
    /\ scenario = "allocuse" /\ batch[1] = AllocUseBatch
    /\ ret[1].kind = "Ok" /\ ret[1].document_ids = <<1>>
    /\ ValueKey("Property", 1, 1, 1) \in DOMAIN db
    /\ BitmapKey(1, 1, "Tag", 1) \in DOMAIN db

\* What the allocator's scan of caller p observes: the transaction's own
\* view of the database.
Observed(p, k) ==
    IF backend = "fdb"
    THEN k \in DOMAIN FdbView(att[p], FdbSnap(att[p]))
    ELSE PgVisible(att[p], db, k)

\* C18: on both backends the id the allocator hands out is never one whose
\* DocumentIds bitmap key was present in the state its scan observed, also
\* when the scanned range holds keys of another length before that key.
C18_AllocatedIdNotTaken ==
    [][\A p \in Procs :
         (pc[p] = "run" /\ AllocatorRan(p)) =>
            ~Observed(p, BitmapKey(att[p].account_id, att[p].collection,
                                   "DocumentIds", att'[p].document_id))]_vars

(***************************************************************************)
(* Order of the operations of a batch.                                     *)
(***************************************************************************)
\* The value a reader finds at key k: the chunk-aware read on FoundationDB,
\* the row on PostgreSQL.
ReadValue(d, k) ==
    IF backend = "fdb" THEN read_chunked_value(d, k)
    ELSE IF k \in DOMAIN d THEN <<TRUE, d[k]>> ELSE ChunkedNone
Absent(d, k) ==
    IF backend = "fdb" THEN RecordsOf(d, k) = {} ELSE k \notin DOMAIN d
\* The literal of the i-th operation of caller p's batch.
LitOf(p, i) == batch[p][i].value.bytes

\* C19: on both backends the operations of a batch take effect in
\* submission order.  Set then Clear of a key leaves it absent, Clear then
\* Set leaves the value, Set(a) then Set(b) leaves b; and a Set made before
\* a DocumentId operation goes to the document named before it, the Set
\* after it to the new document.
C19_SubmissionOrder ==
    [][\A p \in Procs :
         (scenario = "order" /\ WriteCommits(p)) =>
            LET after == hist'[Len(hist')]
                ops == batch[p]
            IN  /\ (Len(ops) = 5 /\ ops[5].vop = "Clear") => Absent(after, KProp)
                /\ (Len(ops) = 5 /\ ops[5].vop = "Set")
                      => ReadValue(after, KProp) = <<TRUE, LitOf(p, 5)>>
                /\ Len(ops) = 6
                      => /\ ReadValue(after, KProp) = <<TRUE, LitOf(p, 4)>>
                         /\ ReadValue(after, K2) = <<TRUE, LitOf(p, 6)>>]_vars

(***************************************************************************)
(* Value.AtomicAdd on PostgreSQL.                                          *)
(***************************************************************************)
\* What the claim expects of one AtomicAdd(n) on a counter cell (<<>> when
\* the row is absent, <<v>> when it holds v).
AddTo(cell, n) ==
    IF n >= 0 THEN <<(IF cell = <<>> THEN 0 ELSE cell[1]) + n>>
    ELSE IF cell = <<>> THEN <<>> ELSE <<cell[1] + n>>
RECURSIVE AddAll(_, _, _)
AddAll(cell, ops, i) ==
    IF i > Len(ops) THEN cell
    ELSE AddAll(IF ops[i].op = "Value" /\ ops[i].vop = "AtomicAdd"
                THEN AddTo(cell, ops[i].by) ELSE cell, ops, i + 1)
CounterCell(d) ==
    IF KCounter \in DOMAIN d THEN <<deserialize_i64_le(d[KCounter])>> ELSE <<>>

\* C20: on PostgreSQL, AtomicAdd(n) with n >= 0 creates the counter row with
\* value n when it is absent and adds n to it otherwise; with n < 0 it adds
\* n to an existing row and leaves an absent row absent, without an error:
\* the batch goes on, its later Set is committed and the write returns Ok.
C20_PgAtomicAdd ==
    [][\A p \in Procs :
         (scenario = "add" /\ WriteCommits(p)) =>
            LET before == hist[Len(hist)]
                after == hist'[Len(hist')]
            IN  /\ CounterCell(after) = AddAll(CounterCell(before), batch[p], 1)
                /\ KProp \in DOMAIN after /\ after[KProp] = V0
                /\ ret'[p].kind = "Ok"]_vars
\* A negative add on an absent counter was committed: the row is still
\* absent, the Set of the batch is there.
C20_Witness ==
    /\ scenario = "add" /\ backend = "pg"
    /\ batch[1] = AddsBatch(<<-2>>)
    /\ ret[1].kind = "Ok"
    /\ KCounter \notin DOMAIN hist[1]
    /\ Len(hist) = 2 /\ KCounter \notin DOMAIN hist[2] /\ KProp \in DOMAIN hist[2]

(***************************************************************************)
(* The records a chunked Set writes.                                       *)
(***************************************************************************)
\* The mutations caller 1's step adds to its transaction.
SetWrites == SubSeq(att'[1].muts, Len(att[1].muts) + 1, Len(att'[1].muts))
CeilChunks == (Len(ChunkV) + MAX_VALUE_SIZE - 1) \div MAX_VALUE_SIZE
KeyOfChunk(i) == IF i = 0 THEN KProp ELSE Append(KProp, i - 1)

\* C21: on FoundationDB a Set of a value of L > MAX_VALUE_SIZE bytes on a
\* chunk-capable key writes exactly ceil(L / MAX_VALUE_SIZE) records, chunk
\* 0 at the bare key and chunk i > 0 at key ++ byte(i - 1), every chunk of
\* 1 .. MAX_VALUE_SIZE bytes and the chunks in index order making up the
\* value; no Set writes more than 255 records, and committed to an empty
\* store the key has exactly these records.
C21_ChunkLayout ==
    [][/\ (SetRuns /\ Moves(1) /\ pc'[1] # "cancelled" /\ Len(ChunkV) > MAX_VALUE_SIZE)
            => LET w == IF pc'[1] = "done" THEN <<>> ELSE SetWrites
                   n == CeilChunks
                   L == Len(ChunkV)
               IN  /\ Len(w) <= U8_MAX
                   /\ n <= U8_MAX => pc'[1] # "done"
                   /\ pc'[1] # "done"
                        => /\ Len(w) = n
                           /\ \A i \in 1 .. n :
                                /\ w[i].m = "set"
                                /\ w[i].k = KeyOfChunk(i - 1)
                                /\ Len(w[i].v) =
                                      (IF i < n THEN MAX_VALUE_SIZE
                                       ELSE L - (n - 1) * MAX_VALUE_SIZE)
                                /\ Len(w[i].v) \in 1 .. MAX_VALUE_SIZE
                           /\ \A j \in 1 .. L :
                                w[((j - 1) \div MAX_VALUE_SIZE) + 1].v[((j - 1) % MAX_VALUE_SIZE) + 1]
                                    = ChunkV[j]
       /\ (SetCommits /\ Len(ChunkV) > MAX_VALUE_SIZE /\ hist[1] = EmptyStore)
            => RecordsOf(hist'[Len(hist')], KProp)
                  = {KeyOfChunk(i) : i \in 0 .. CeilChunks - 1}]_vars
\* A Set of 255 chunks was committed.
C21_Witness ==
    /\ backend = "fdb" /\ scenario = "chunk"
    /\ Len(ChunkV) = U8_MAX * MAX_VALUE_SIZE
    /\ ret[1].kind = "Ok"
    /\ Append(KProp, U8_MAX - 2) \in DOMAIN hist[Len(hist)]

(***************************************************************************)
(* Values that are never chunked.                                          *)
(***************************************************************************)
PlainOp == batch[1][Len(batch[1])]
PlainKey == ValueKey(PlainOp.class, 1, 1, 0)
PlainRuns(vop) ==
    /\ backend = "fdb" /\ scenario = "plain"
    /\ IsValueOp(1, vop) /\ Moves(1) /\ pc'[1] # "cancelled"

\* C22: on FoundationDB a Set on a counter class writes one record, at the
\* bare key, whatever the length of the value, and so does the Set of an
\* empty value on a chunk-capable key; a Clear on a counter class deletes
\* the bare key alone, not a range.  Once committed, the key of the Set
\* holds the value in that one record and the cleared key is absent.
C22_CountersNotChunked ==
    [][/\ PlainRuns("Set")
            => /\ pc'[1] # "done"
               /\ SetWrites = <<MutSet(PlainKey, PlainOp.value.bytes)>>
       /\ PlainRuns("Clear")
            => /\ pc'[1] # "done"
               /\ SetWrites = <<MutClear(PlainKey)>>
       /\ (backend = "fdb" /\ scenario = "plain" /\ WriteCommits(1))
            => LET after == hist'[Len(hist')]
               IN  IF PlainOp.vop = "Set"
                   THEN /\ RecordsOf(after, PlainKey) = {PlainKey}
                        /\ after[PlainKey] = PlainOp.value.bytes
                   ELSE PlainKey \notin DOMAIN after]_vars
\* A counter value longer than two chunks was committed in one record.
C22_Witness ==
    /\ backend = "fdb" /\ scenario = "plain"
    /\ batch[1] = Ctx(0) \o <<OpSet("Counter", Lit(Bytes(2 * MAX_VALUE_SIZE + 1)))>>
    /\ ret[1].kind = "Ok"
    /\ KCounter \in DOMAIN hist[Len(hist)]
    /\ Len(hist[Len(hist)][KCounter]) = 2 * MAX_VALUE_SIZE + 1

(***************************************************************************)
(* Sets that follow an AssertValue on PostgreSQL.                          *)
(***************************************************************************)
LastSet(ops) == ops[Len(ops)].value.bytes

\* C23: on PostgreSQL, with no other writer, a batch whose AssertValue
\* predicates all match what the key holds at that point never returns
\* AssertValueFailed, and once it is committed the asserted key holds the
\* value of the batch's last Set: also when the batch Sets the key twice,
\* or Clears it and then Sets it.
C23_AssertedSetSucceeds ==
    [][(backend = "pg" /\ scenario = "reassert")
         => /\ ret'[1].kind # "AssertValueFailed"
            /\ WriteCommits(1)
                 => LET after == hist'[Len(hist')]
                    IN  KProp \in DOMAIN after /\ after[KProp] = LastSet(batch[1])]_vars

(***************************************************************************)
(* The allocator retry sentinel on PostgreSQL.                             *)
(***************************************************************************)
\* The document id of caller p's context was allocated in this attempt.
AllocatedHere(p) ==
    \E i \in 1 .. Len(att[p].document_ids) : att[p].document_ids[i] = att[p].document_id

\* C24: on PostgreSQL the allocator retry sentinel is raised only for the
\* INSERT of a document id allocated in the current attempt.  A batch is
\* executed again for the sentinel, or returns AssertValueFailed for the
\* exhausted sentinel, only from such an INSERT; the INSERT of a preset
\* document id whose key is already present does neither.
C24_SentinelOnlyForAllocated ==
    [][\A p \in Procs :
         (backend = "pg" /\ Moves(p)
            /\ \/ Reexecutes(p) /\ lastRetry'[p].cause = "sentinel"
               \/ ret[p].kind = "none" /\ ret'[p].kind = "AssertValueFailed"
                    /\ ret'[p].code = "sentinel")
            => IsOp(p, "Bitmap") /\ AllocatedHere(p)]_vars

(***************************************************************************)
(* AssertValue on FoundationDB when the read fails.                        *)
(***************************************************************************)
\* C25: on FoundationDB write returns AssertValueFailed from an AssertValue
\* operation only when the value read does not satisfy the predicate; a
\* read of the asserted key that fails with a backend error is never
\* returned as AssertValueFailed.
C25_AssertFailureMeansMismatch ==
    [][\A p \in Procs :
         (backend = "fdb" /\ ret[p].kind = "none" /\ ret'[p].kind = "AssertValueFailed")
            => /\ AssertionFails(p)
               /\ ret'[p].code = "mismatch"]_vars

=============================================================================
